---- MODULE Spec2Model ----
(***************************************************************************)
(* Model of the PriceChekRider conversation engine: the SMS step machine   *)
(* (app/routers/sms.py), the USSD menu (app/routers/ussd.py) and the mock  *)
(* price source (app/services/scraper.py) over the users and orders        *)
(* tables (app/models.py).                                                 *)
(*                                                                         *)
(* Text is modelled as a sequence of one-character strings, so that        *)
(* strip, upper, split, the location pattern and str.replace are computed  *)
(* character by character as Python computes them.                         *)
(***************************************************************************)
EXTENDS Integers, Sequences, FiniteSets, TLC

(***************************************************************************)
(* Characters and Python string operations                                 *)
(***************************************************************************)
LowerLetters == <<"a", "b", "c", "d", "e", "f", "g", "h", "i", "j", "k", "l", "m",
                  "n", "o", "p", "q", "r", "s", "t", "u", "v", "w", "x", "y", "z">>

UpperLetters == <<"A", "B", "C", "D", "E", "F", "G", "H", "I", "J", "K", "L", "M",
                  "N", "O", "P", "Q", "R", "S", "T", "U", "V", "W", "X", "Y", "Z">>

Whitespace == {" ", "\n", "\t", "\r"}

IsLower(c) == \E i \in 1..26 : LowerLetters[i] = c

IsUpper(c) == \E i \in 1..26 : UpperLetters[i] = c

IsLetter(c) == IsLower(c) \/ IsUpper(c)

\* str.upper() on one character
UpperChar(c) == IF IsLower(c) THEN UpperLetters[CHOOSE i \in 1..26 : LowerLetters[i] = c] ELSE c

\* str.lower() on one character
LowerChar(c) == IF IsUpper(c) THEN LowerLetters[CHOOSE i \in 1..26 : UpperLetters[i] = c] ELSE c

\* str.upper()
Upper(s) == [i \in 1..Len(s) |-> UpperChar(s[i])]

\* str.lower()
Lower(s) == [i \in 1..Len(s) |-> LowerChar(s[i])]

\* str.title(): a letter that follows a non-letter is upper-cased, every other letter lower-cased
Title(s) == [i \in 1..Len(s) |->
               IF i = 1 \/ ~IsLetter(s[i - 1]) THEN UpperChar(s[i]) ELSE LowerChar(s[i])]

\* str.strip(): drop leading and trailing whitespace
Strip(s) ==
    LET keep == {i \in 1..Len(s) : s[i] \notin Whitespace}
    IN  IF keep = {} THEN <<>>
        ELSE LET lo == CHOOSE i \in keep : \A j \in keep : i <= j
                 hi == CHOOSE i \in keep : \A j \in keep : j <= i
             IN  SubSeq(s, lo, hi)

\* str.startswith(prefix)
StartsWith(s, prefix) ==
    /\ Len(prefix) <= Len(s)
    /\ SubSeq(s, 1, Len(prefix)) = prefix

RECURSIVE ReplaceFrom(_, _, _)
\* str.replace(old, "") scanning from position i: every non-overlapping
\* occurrence of old, found left to right, is removed
ReplaceFrom(s, old, i) ==
    IF i > Len(s) THEN <<>>
    ELSE IF i + Len(old) - 1 <= Len(s) /\ SubSeq(s, i, i + Len(old) - 1) = old
         THEN ReplaceFrom(s, old, i + Len(old))
         ELSE <<s[i]>> \o ReplaceFrom(s, old, i + 1)

\* str.replace(old, "")
Remove(s, old) == ReplaceFrom(s, old, 1)

RECURSIVE SplitFrom(_, _, _, _)
\* re.split on a character class, one or more separators per cut; cur is the
\* piece being accumulated.  Pieces may be empty at either end of the text.
SplitFrom(s, seps, i, cur) ==
    IF i > Len(s) THEN <<cur>>
    ELSE IF s[i] \in seps
         THEN IF i > 1 /\ s[i - 1] \in seps
              THEN SplitFrom(s, seps, i + 1, cur)
              ELSE <<cur>> \o SplitFrom(s, seps, i + 1, <<>>)
         ELSE SplitFrom(s, seps, i + 1, Append(cur, s[i]))

\* re.split(r"[,;\n]+", s)
ReSplit(s, seps) == SplitFrom(s, seps, 1, <<>>)

\* str.split("*")
RECURSIVE StrSplitFrom(_, _, _, _)
StrSplitFrom(s, sep, i, cur) ==
    IF i > Len(s) THEN <<cur>>
    ELSE IF s[i] = sep
         THEN <<cur>> \o StrSplitFrom(s, sep, i + 1, <<>>)
         ELSE StrSplitFrom(s, sep, i + 1, Append(cur, s[i]))

StrSplit(s, sep) == StrSplitFrom(s, sep, 1, <<>>)

\* the pattern without re.IGNORECASE on the city code
MatchesLocation_upper(s) ==
    \E k \in 2..5 :
        /\ Len(s) >= k + 2
        /\ \A i \in 1..k : IsUpper(s[i])
        /\ s[k + 1] = "-"
        /\ \A i \in (k + 2)..Len(s) : IsLetter(s[i])

\* the pattern with the repetition written {2,6}
MatchesLocation_six(s) ==
    \E k \in 2..6 :
        /\ Len(s) >= k + 2
        /\ \A i \in 1..k : IsLetter(s[i])
        /\ s[k + 1] = "-"
        /\ \A i \in (k + 2)..Len(s) : IsLetter(s[i])

\* re.match(r"^[A-Z]{2,5}-[A-Za-z]+$", s, re.IGNORECASE)
MatchesLocation(s) ==
    \E k \in 2..5 :
        /\ Len(s) >= k + 2
        /\ \A i \in 1..k : IsLetter(s[i])
        /\ s[k + 1] = "-"
        /\ \A i \in (k + 2)..Len(s) : IsLetter(s[i])

(***************************************************************************)
(* Price source: app/services/scraper.py                                   *)
(***************************************************************************)
Offer(shop, price, rider_time, store_location, average) ==
    [shop |-> shop, price |-> price, rider_time |-> rider_time,
     store_location |-> store_location, average |-> average]

K_sugar == <<"s", "u", "g", "a", "r">>

K_milk == <<"m", "i", "l", "k">>

K_bread == <<"b", "r", "e", "a", "d">>

K_rice == <<"r", "i", "c", "e">>

K_cooking_oil == <<"c", "o", "o", "k", "i", "n", "g", " ", "o", "i", "l">>

K_tea == <<"t", "e", "a">>

\* MockScraper.MOCK_PRICES, as a sequence of (key, offers) pairs
MOCK_PRICES ==
    << [key |-> K_sugar, prices |->
          << Offer("Naivas", 230, "5 min", "Naivas Kileleshwa", 240),
             Offer("Quickmart", 245, "8 min", "QuickMart Kileleshwa", 255),
             Offer("Tuskys", 250, "10 min", "Tuskys Kileleshwa", 260),
             Offer("Carrefour", 235, "12 min", "Carrefour Kileleshwa", 245) >>],
       [key |-> K_milk, prices |->
          << Offer("Naivas", 120, "5 min", "Naivas Kileleshwa", 125),
             Offer("Quickmart", 125, "8 min", "QuickMart Kileleshwa", 130),
             Offer("Tuskys", 130, "10 min", "Tuskys Kileleshwa", 132),
             Offer("Carrefour", 118, "12 min", "Carrefour Kileleshwa", 122) >>],
       [key |-> K_bread, prices |->
          << Offer("Naivas", 55, "5 min", "Naivas Kileleshwa", 58),
             Offer("Quickmart", 60, "8 min", "QuickMart Kileleshwa", 62),
             Offer("Tuskys", 58, "10 min", "Tuskys Kileleshwa", 60),
             Offer("Carrefour", 57, "12 min", "Carrefour Kileleshwa", 59) >>],
       [key |-> K_rice, prices |->
          << Offer("Naivas", 180, "5 min", "Naivas Kileleshwa", 185),
             Offer("Quickmart", 185, "8 min", "QuickMart Kileleshwa", 190),
             Offer("Tuskys", 190, "10 min", "Tuskys Kileleshwa", 195),
             Offer("Carrefour", 175, "12 min", "Carrefour Kileleshwa", 180) >>],
       [key |-> K_cooking_oil, prices |->
          << Offer("Naivas", 450, "5 min", "Naivas Kileleshwa", 460),
             Offer("Quickmart", 460, "8 min", "QuickMart Kileleshwa", 470),
             Offer("Tuskys", 470, "10 min", "Tuskys Kileleshwa", 475),
             Offer("Carrefour", 445, "12 min", "Carrefour Kileleshwa", 455) >>],
       [key |-> K_tea, prices |->
          << Offer("Naivas", 95, "5 min", "Naivas Kileleshwa", 98),
             Offer("Quickmart", 100, "8 min", "QuickMart Kileleshwa", 102),
             Offer("Tuskys", 98, "10 min", "Tuskys Kileleshwa", 100),
             Offer("Carrefour", 92, "12 min", "Carrefour Kileleshwa", 95) >>] >>

\* the list get_prices returns for a name that is not a key of MOCK_PRICES
DefaultPrices ==
    << Offer("Naivas", 200, "5 min", "Naivas", 210),
       Offer("Quickmart", 210, "8 min", "QuickMart", 215),
       Offer("Tuskys", 215, "10 min", "Tuskys", 220) >>

DELIVERY_FEE_KES == 150

\* the lookup with the name only trimmed, not lower-cased
get_prices_exact(product_name) ==
    LET product_key == Strip(product_name)
        hit == {i \in 1..Len(MOCK_PRICES) : MOCK_PRICES[i].key = product_key}
    IN  IF hit # {} THEN MOCK_PRICES[CHOOSE i \in hit : TRUE].prices
        ELSE DefaultPrices

\* MockScraper.get_prices(product_name, city): the city is not used
get_prices(product_name) ==
    LET product_key == Strip(Lower(product_name))
        hit == {i \in 1..Len(MOCK_PRICES) : MOCK_PRICES[i].key = product_key}
    IN  IF hit # {} THEN MOCK_PRICES[CHOOSE i \in hit : TRUE].prices
        ELSE DefaultPrices

(***************************************************************************)
(* Python values                                                           *)
(*                                                                         *)
(* A nullable text column (str | None) is a record: isNull, or the text.   *)
(* The session token "prices:" + json.dumps(all_prices) is the text        *)
(* "prices:" followed by a JSON object, kept as the ordered sequence obj   *)
(* of (key, prices) pairs; hasObj says that the object is present.  Keys   *)
(* are character sequences; the strings inside an offer are fixture        *)
(* constants.  The alphabet has no quote, backslash or non-ASCII           *)
(* character, so json.dumps writes every key as it is.                     *)
(***************************************************************************)
NULL == [isNull |-> TRUE, text |-> <<>>, hasObj |-> FALSE, obj |-> <<>>]

Str(s) == [isNull |-> FALSE, text |-> s, hasObj |-> FALSE, obj |-> <<>>]

\* prefix + json.dumps(d)
StrJson(prefix, d) == [isNull |-> FALSE, text |-> prefix, hasObj |-> TRUE, obj |-> d]

\* Python truthiness of a str | None value
Truthy(v) == ~v.isNull /\ (v.text # <<>> \/ v.hasObj)

PricesPrefix == <<"p", "r", "i", "c", "e", "s", ":">>

SmsStepPrefix == <<"s", "m", "s", "_", "s", "t", "e", "p", ":">>

NeedArea == <<"n", "e", "e", "d", "_", "a", "r", "e", "a">>

NeedSearchType == <<"n", "e", "e", "d", "_", "s", "e", "a", "r", "c", "h", "_", "t", "y", "p", "e">>

NeedProducts == <<"n", "e", "e", "d", "_", "p", "r", "o", "d", "u", "c", "t", "s">>

HaveResults == <<"h", "a", "v", "e", "_", "r", "e", "s", "u", "l", "t", "s">>

SmsStepNeedArea == <<"s", "m", "s", "_", "s", "t", "e", "p", ":", "n", "e", "e", "d", "_", "a", "r", "e", "a">>

CmdOrder == <<"O", "R", "D", "E", "R">>

CmdCancel == <<"C", "A", "N", "C", "E", "L">>

CmdNew == <<"N", "E", "W">>

\* dict lookup: the positions of key k in the ordered dict d (at most one)
DictPos(d, k) == {i \in 1..Len(d) : d[i].key = k}

\* d[k] = v on an insertion-ordered dict: an existing key keeps its place
DictSet(d, k, v) ==
    IF DictPos(d, k) # {}
    THEN [i \in 1..Len(d) |-> IF d[i].key = k THEN [key |-> k, prices |-> v] ELSE d[i]]
    ELSE Append(d, [key |-> k, prices |-> v])

\* the keys of a dict, in order
DictKeys(d) == [i \in 1..Len(d) |-> d[i].key]

RECURSIVE DictFromPairs(_, _)
\* json.loads of an object: the pairs are inserted left to right, so a
\* repeated key keeps its first place and its last value
DictFromPairs(pairs, i) ==
    IF i = 0 THEN <<>>
    ELSE DictSet(DictFromPairs(pairs, i - 1), pairs[i].key, pairs[i].prices)

\* _parse_sms_step(session_data)
ParseSmsStep(session_data) ==
    IF ~Truthy(session_data) THEN NeedArea
    ELSE IF StartsWith(session_data.text, PricesPrefix) THEN HaveResults
    ELSE IF ~session_data.hasObj /\ session_data.text \in {NeedArea, NeedSearchType, NeedProducts}
         THEN session_data.text
    ELSE IF StartsWith(session_data.text, SmsStepPrefix) /\ ~session_data.hasObj
         THEN Remove(session_data.text, SmsStepPrefix)
    ELSE NeedProducts

\* json.loads(user.current_session_data.replace("prices:", "")) of a token
\* that starts with "prices:".  str.replace removes every occurrence of
\* "prices:" in the whole string, the ones inside the keys included; no
\* occurrence can span a key and the JSON punctuation around it.  The result
\* is [ok |-> FALSE] when what is left is not a JSON document.
LoadLastPrices(session_data) ==
    LET rest == Remove(session_data.text, PricesPrefix)
        pairs == [i \in 1..Len(session_data.obj) |->
                    [key |-> Remove(session_data.obj[i].key, PricesPrefix),
                     prices |-> session_data.obj[i].prices]]
    IN  IF rest = <<>> /\ session_data.hasObj
        THEN [ok |-> TRUE, value |-> DictFromPairs(pairs, Len(pairs))]
        ELSE [ok |-> FALSE, value |-> <<>>]

RECURSIVE InsertSorted(_, _)
\* insert offer x behind every element whose price is not greater (stable)
InsertSorted(sorted, x) ==
    IF sorted = <<>> THEN <<x>>
    ELSE IF sorted[1].price <= x.price
         THEN <<sorted[1]>> \o InsertSorted(Tail(sorted), x)
         ELSE <<x>> \o sorted

RECURSIVE SortedByPriceUpTo(_, _)
SortedByPriceUpTo(prices, n) ==
    IF n = 0 THEN <<>>
    ELSE InsertSorted(SortedByPriceUpTo(prices, n - 1), prices[n])

\* sorted(prices, key=lambda x: x["price"]): a stable sort
SortedByPrice(prices) == SortedByPriceUpTo(prices, Len(prices))

RECURSIVE SumPricesUpTo(_, _)
SumPricesUpTo(prices, n) ==
    IF n = 0 THEN 0 ELSE SumPricesUpTo(prices, n - 1) + prices[n].price

\* sum(p["price"] for p in prices)
SumPrices(prices) == SumPricesUpTo(prices, Len(prices))

(***************************************************************************)
(* Storage: the users and orders tables (app/models.py)                    *)
(***************************************************************************)
VARIABLES
    users,     \* rows of the users table, in id order
    orders,    \* rows of the orders table, in id order
    last       \* the last request: its inputs, what the collaborators did, the token
               \* the handler read and the step it decoded, whether the request before it was answered
               \* with an order confirmation to the same phone, and its response
VARIABLES
    pending    \* per worker, the request it is serving step by step: where it is in the
               \* handler, the row it loaded, and the commits it still has to make
VARIABLES
    at_service_instance,  \* the module global _at_service_instance of at_service.py
    received              \* per phone number, the results replies handed to the notifier
                          \* for it so far, in the conversations where they are counted

vars == <<users, orders, last, pending, at_service_instance, received>>

\* User(phone_number=...), given the next autoincrement id
NewUser(id, phone_number, city_code, location) ==
    [id |-> id, phone_number |-> phone_number, current_session_data |-> NULL,
     city_code |-> city_code, location |-> location]

\* db.query(User).filter(User.phone_number == phone_number).first(): the
\* position of the row, 0 for None
FindUser(us, phone_number) ==
    IF \E i \in 1..Len(us) : us[i].phone_number = phone_number
    THEN CHOOSE i \in 1..Len(us) :
            /\ us[i].phone_number = phone_number
            /\ \A j \in 1..(i - 1) : us[j].phone_number # phone_number
    ELSE 0

Db(us, os) == [users |-> us, orders |-> os]

\* a reply text, by the place that builds it; a results reply carries its
\* lines and totals, an order confirmation the order id of its tracking link
Reply(kind) == [kind |-> kind, lines |-> <<>>, total |-> 0, delivery_fee |-> 0, order_id |-> 0]

NoReply == Reply("none")

\* what a branch of a handler does: the database as it stands after each of
\* its commits, the reply it builds, and whether it raised before replying
Run(commits, reply, raised) == [commits |-> commits, reply |-> reply, raised |-> raised]

(***************************************************************************)
(* SMS engine: handle_incoming_sms (app/routers/sms.py)                    *)
(***************************************************************************)
\* the entry of items_list for one product of last_prices
OrderItem(product, prices) ==
    LET sorted_prices == SortedByPrice(prices)
        best == sorted_prices[1]
    IN  [product |-> product, shop |-> best.shop, store_location |-> best.store_location,
         price |-> best.price, rider_time |-> best.rider_time]

RECURSIVE SumItemsUpTo(_, _)
\* total += best["price"], over the items built so far
SumItemsUpTo(items, n) ==
    IF n = 0 THEN 0 ELSE SumItemsUpTo(items, n - 1) + items[n].price

\* the ORDER branch without the reset of the step after the order is stored
OrderBranch_keep(us, os, uid) ==
    LET user == us[uid]
        token == user.current_session_data
        loaded == IF Truthy(token) /\ StartsWith(token.text, PricesPrefix)
                  THEN LoadLastPrices(token)
                  ELSE [ok |-> FALSE, value |-> <<>>]
        last_prices == loaded.value
    IN  IF loaded.ok /\ last_prices # <<>>
        THEN LET items_list == [i \in 1..Len(last_prices) |->
                                   OrderItem(last_prices[i].key, last_prices[i].prices)]
                 total == SumItemsUpTo(items_list, Len(items_list))
                 order == [id |-> Len(os) + 1, user_id |-> user.id, items |-> items_list,
                           total_price |-> total + DELIVERY_FEE_KES, status |-> "PENDING"]
                 os1 == Append(os, order)
             IN  Run(<<Db(us, os1)>>,
                     [Reply("order_confirmed") EXCEPT !.order_id = order.id], FALSE)
        ELSE Run(<<>>, Reply("no_recent_comparison"), FALSE)

\* the ORDER branch with the step already changed when the order is stored
OrderBranch_twice(us, os, uid) ==
    LET user == us[uid]
        token == user.current_session_data
        loaded == IF Truthy(token) /\ StartsWith(token.text, PricesPrefix)
                  THEN LoadLastPrices(token)
                  ELSE [ok |-> FALSE, value |-> <<>>]
        last_prices == loaded.value
    IN  IF loaded.ok /\ last_prices # <<>>
        THEN IF \E i \in 1..Len(last_prices) : last_prices[i].prices = <<>>
             THEN Run(<<>>, NoReply, TRUE)
             ELSE LET items_list == [i \in 1..Len(last_prices) |->
                                        OrderItem(last_prices[i].key, last_prices[i].prices)]
                      total == SumItemsUpTo(items_list, Len(items_list))
                      order == [id |-> Len(os) + 1, user_id |-> user.id, items |-> items_list,
                                total_price |-> total + DELIVERY_FEE_KES, status |-> "PENDING"]
                      os1 == Append(os, order)
                      us0 == [us EXCEPT ![uid].current_session_data = Str(NeedSearchType)]
                      us1 == [us EXCEPT ![uid].current_session_data = Str(NeedProducts)]
                  IN  Run(<<Db(us0, os1), Db(us1, os1)>>,
                          [Reply("order_confirmed") EXCEPT !.order_id = order.id], FALSE)
        ELSE Run(<<>>, Reply("no_recent_comparison"), FALSE)

\* the ORDER branch
\* an ORDER branch that sets the step to need_products when it finds no
\* snapshot
OrderBranch_reset(us, os, uid) ==
    LET user == us[uid]
        token == user.current_session_data
        loaded == IF Truthy(token) /\ StartsWith(token.text, PricesPrefix)
                  THEN LoadLastPrices(token)
                  ELSE [ok |-> FALSE, value |-> <<>>]
        last_prices == loaded.value
    IN  IF loaded.ok /\ last_prices # <<>>
        THEN IF \E i \in 1..Len(last_prices) : last_prices[i].prices = <<>>
             THEN Run(<<>>, NoReply, TRUE)
             ELSE LET items_list == [i \in 1..Len(last_prices) |->
                                        OrderItem(last_prices[i].key, last_prices[i].prices)]
                      total == SumItemsUpTo(items_list, Len(items_list))
                      order == [id |-> Len(os) + 1, user_id |-> user.id, items |-> items_list,
                                total_price |-> total + DELIVERY_FEE_KES, status |-> "PENDING"]
                      os1 == Append(os, order)
                      us1 == [us EXCEPT ![uid].current_session_data = Str(NeedProducts)]
                  IN  Run(<<Db(us, os1), Db(us1, os1)>>,
                          [Reply("order_confirmed") EXCEPT !.order_id = order.id], FALSE)
        ELSE Run(<<Db([us EXCEPT ![uid].current_session_data = Str(NeedProducts)], os)>>,
                 Reply("no_recent_comparison"), FALSE)

\* the ORDER branch
OrderBranch(us, os, uid) ==
    LET user == us[uid]
        token == user.current_session_data
        loaded == IF Truthy(token) /\ StartsWith(token.text, PricesPrefix)
                  THEN LoadLastPrices(token)
                  ELSE [ok |-> FALSE, value |-> <<>>]
        last_prices == loaded.value
    IN  IF loaded.ok /\ last_prices # <<>>
        THEN IF \E i \in 1..Len(last_prices) : last_prices[i].prices = <<>>
             THEN Run(<<>>, NoReply, TRUE)
             ELSE LET items_list == [i \in 1..Len(last_prices) |->
                                        OrderItem(last_prices[i].key, last_prices[i].prices)]
                      total == SumItemsUpTo(items_list, Len(items_list))
                      order == [id |-> Len(os) + 1, user_id |-> user.id, items |-> items_list,
                                total_price |-> total + DELIVERY_FEE_KES, status |-> "PENDING"]
                      os1 == Append(os, order)
                      us1 == [us EXCEPT ![uid].current_session_data = Str(NeedProducts)]
                  IN  Run(<<Db(us, os1), Db(us1, os1)>>,
                          [Reply("order_confirmed") EXCEPT !.order_id = order.id], FALSE)
        ELSE Run(<<>>, Reply("no_recent_comparison"), FALSE)

\* a CANCEL branch that also marks the customer's orders as cancelled
CancelBranch_void(us, os, uid) ==
    Run(<<Db([us EXCEPT ![uid].current_session_data = Str(NeedProducts)],
             [i \in 1..Len(os) |->
                 IF os[i].user_id = us[uid].id THEN [os[i] EXCEPT !.status = "CANCELLED"]
                 ELSE os[i]])>>,
        Reply("order_cancelled"), FALSE)

\* the CANCEL branch
CancelBranch(us, os, uid) ==
    Run(<<Db([us EXCEPT ![uid].current_session_data = Str(NeedProducts)], os)>>,
        Reply("order_cancelled"), FALSE)

\* a NEW branch that replies without writing the step
NewBranch_keep(us, os, uid) == Run(<<>>, Reply("list_products"), FALSE)

\* a NEW branch that starts the conversation over at the location step
NewBranch_area(us, os, uid) ==
    Run(<<Db([us EXCEPT ![uid].current_session_data = Str(NeedArea)], os)>>,
        Reply("list_products"), FALSE)

\* the NEW branch
NewBranch(us, os, uid) ==
    Run(<<Db([us EXCEPT ![uid].current_session_data = Str(NeedProducts)], os)>>,
        Reply("list_products"), FALSE)

\* step need_area
NeedAreaBranch(us, os, uid, message_text) ==
    IF MatchesLocation(Strip(message_text))
    THEN Run(<<Db([us EXCEPT ![uid].location = Str(Strip(message_text)),
                              ![uid].current_session_data = Str(NeedSearchType)], os)>>,
             Reply("search_for"), FALSE)
    ELSE Run(<<>>, Reply("location_format"), FALSE)

\* a search-type step that takes "1" only
NeedSearchTypeBranch_one(us, os, uid, message_text) ==
    IF Strip(message_text) \in {<<"1">>}
    THEN Run(<<Db([us EXCEPT ![uid].current_session_data = Str(NeedProducts)], os)>>,
             Reply("list_products"), FALSE)
    ELSE Run(<<>>, Reply("reply_1_or_2"), FALSE)

\* step need_search_type
NeedSearchTypeBranch(us, os, uid, message_text) ==
    IF Strip(message_text) \in {<<"1">>, <<"2">>}
    THEN Run(<<Db([us EXCEPT ![uid].current_session_data = Str(NeedProducts)], os)>>,
             Reply("list_products"), FALSE)
    ELSE Run(<<>>, Reply("reply_1_or_2"), FALSE)

\* [p.strip() for p in re.split(r"[,;\n]+", message_text) if p.strip()]
ProductsOf(message_text) ==
    LET pieces == ReSplit(message_text, {",", ";", "\n"})
        stripped == [i \in 1..Len(pieces) |-> Strip(pieces[i])]
    IN  SelectSeq(stripped, LAMBDA p : p # <<>>)

RECURSIVE AllPricesUpTo(_, _)
\* the loop that fills all_prices, over the first n products
AllPricesUpTo(products, n) ==
    IF n = 0 THEN <<>>
    ELSE LET prices == get_prices(products[n])
             sofar == AllPricesUpTo(products, n - 1)
         IN  IF prices # <<>> THEN DictSet(sofar, products[n], prices) ELSE sofar

\* the three lines of the results reply for one product
ResultLine(product, prices) ==
    LET sorted_prices == SortedByPrice(prices)
        best == sorted_prices[1]
    IN  [product |-> Title(product), cheapest |-> best.price,
         store_loc |-> best.store_location,
         average |-> SumPrices(prices) \div Len(prices)]

RECURSIVE TotalCheapestUpTo_first(_, _)
\* a total that adds the first offer of each product instead of the cheapest
TotalCheapestUpTo_first(all_prices, n) ==
    IF n = 0 THEN 0
    ELSE TotalCheapestUpTo_first(all_prices, n - 1) + all_prices[n].prices[1].price

RECURSIVE TotalCheapestUpTo(_, _)
\* total_cheapest += best["price"], over the first n entries of all_prices
TotalCheapestUpTo(all_prices, n) ==
    IF n = 0 THEN 0
    ELSE TotalCheapestUpTo(all_prices, n - 1) + SortedByPrice(all_prices[n].prices)[1].price

\* a product-list branch that adds the new prices to the stored snapshot
\* instead of starting from an empty all_prices
ProductsBranch_merge(us, os, uid, message_text) ==
    LET products == ProductsOf(message_text)
        fresh == AllPricesUpTo(products, Len(products))
        stored == us[uid].current_session_data
        pairs == (IF stored.hasObj THEN stored.obj ELSE <<>>) \o fresh
        all_prices == DictFromPairs(pairs, Len(pairs))
    IN  IF products = <<>> THEN Run(<<>>, Reply("list_products_again"), FALSE)
        ELSE IF all_prices = <<>> THEN Run(<<>>, Reply("no_prices_found"), FALSE)
        ELSE Run(<<Db([us EXCEPT ![uid].current_session_data = StrJson(PricesPrefix, all_prices)], os)>>,
                 [Reply("results") EXCEPT
                     !.lines = [i \in 1..Len(all_prices) |->
                                  ResultLine(all_prices[i].key, all_prices[i].prices)],
                     !.total = TotalCheapestUpTo(all_prices, Len(all_prices)),
                     !.delivery_fee = DELIVERY_FEE_KES],
                 FALSE)

\* a product-list branch that goes back to need_products on a message
\* without product names
ProductsBranch_clear(us, os, uid, message_text) ==
    LET products == ProductsOf(message_text)
        all_prices == AllPricesUpTo(products, Len(products))
    IN  IF products = <<>>
        THEN Run(<<Db([us EXCEPT ![uid].current_session_data = Str(NeedProducts)], os)>>,
                 Reply("list_products_again"), FALSE)
        ELSE IF all_prices = <<>> THEN Run(<<>>, Reply("no_prices_found"), FALSE)
        ELSE Run(<<Db([us EXCEPT ![uid].current_session_data = StrJson(PricesPrefix, all_prices)], os)>>,
                 [Reply("results") EXCEPT
                     !.lines = [i \in 1..Len(all_prices) |->
                                  ResultLine(all_prices[i].key, all_prices[i].prices)],
                     !.total = TotalCheapestUpTo(all_prices, Len(all_prices)),
                     !.delivery_fee = DELIVERY_FEE_KES],
                 FALSE)

\* a product-list branch that stores and reports all_prices without looking
\* whether anything is in it
ProductsBranch_nocheck(us, os, uid, message_text) ==
    LET products == ProductsOf(message_text)
        all_prices == AllPricesUpTo(products, Len(products))
    IN  Run(<<Db([us EXCEPT ![uid].current_session_data = StrJson(PricesPrefix, all_prices)], os)>>,
            [Reply("results") EXCEPT
                !.lines = [i \in 1..Len(all_prices) |->
                             ResultLine(all_prices[i].key, all_prices[i].prices)],
                !.total = TotalCheapestUpTo(all_prices, Len(all_prices)),
                !.delivery_fee = DELIVERY_FEE_KES],
            FALSE)

\* steps need_products and have_results: the message is a product list
ProductsBranch(us, os, uid, message_text) ==
    LET products == ProductsOf(message_text)
        all_prices == AllPricesUpTo(products, Len(products))
    IN  IF products = <<>> THEN Run(<<>>, Reply("list_products_again"), FALSE)
        ELSE IF all_prices = <<>> THEN Run(<<>>, Reply("no_prices_found"), FALSE)
        ELSE Run(<<Db([us EXCEPT ![uid].current_session_data = StrJson(PricesPrefix, all_prices)], os)>>,
                 [Reply("results") EXCEPT
                     !.lines = [i \in 1..Len(all_prices) |->
                                  ResultLine(all_prices[i].key, all_prices[i].prices)],
                     !.total = TotalCheapestUpTo(all_prices, Len(all_prices)),
                     !.delivery_fee = DELIVERY_FEE_KES],
                 FALSE)

\* a chain that tests the step before the commands
SmsDispatch_stepfirst(us, os, uid, message_text) ==
    LET msg_upper == Upper(message_text)
        step == ParseSmsStep(us[uid].current_session_data)
    IN  IF step = NeedArea THEN NeedAreaBranch(us, os, uid, message_text)
        ELSE IF step = NeedSearchType THEN NeedSearchTypeBranch(us, os, uid, message_text)
        ELSE IF msg_upper = CmdOrder THEN OrderBranch(us, os, uid)
        ELSE IF msg_upper = CmdCancel THEN CancelBranch(us, os, uid)
        ELSE IF msg_upper = CmdNew THEN NewBranch(us, os, uid)
        ELSE ProductsBranch(us, os, uid, message_text)

\* the if / elif chain on msg_upper and step
SmsDispatch(us, os, uid, message_text) ==
    LET msg_upper == Upper(message_text)
        step == ParseSmsStep(us[uid].current_session_data)
    IN  IF msg_upper = CmdOrder THEN OrderBranch(us, os, uid)
        ELSE IF msg_upper = CmdCancel THEN CancelBranch(us, os, uid)
        ELSE IF msg_upper = CmdNew THEN NewBranch(us, os, uid)
        ELSE IF step = NeedArea THEN NeedAreaBranch(us, os, uid, message_text)
        ELSE IF step = NeedSearchType THEN NeedSearchTypeBranch(us, os, uid, message_text)
        ELSE ProductsBranch(us, os, uid, message_text)

\* the body of handle_incoming_sms up to the reply: load or create the
\* user, decode the step, then dispatch
SmsRun(us, os, phone_number, text) ==
    LET message_text == Strip(text)
        found == FindUser(us, phone_number)
        us1 == IF found = 0
               THEN Append(us, NewUser(Len(us) + 1, phone_number, NULL, NULL))
               ELSE us
        created == IF found = 0 THEN <<Db(us1, os)>> ELSE <<>>
        uid == FindUser(us1, phone_number)
        branch == SmsDispatch(us1, os, uid, message_text)
    IN  [commits |-> created \o branch.commits, reply |-> branch.reply,
         raised |-> branch.raised, step |-> ParseSmsStep(us1[uid].current_session_data),
         token |-> us1[uid].current_session_data]

(***************************************************************************)
(* USSD engine: _ussd_logic (app/routers/ussd.py)                          *)
(***************************************************************************)
Screen(kind, text) == [kind |-> kind, text |-> text, options |-> <<>>, listed |-> <<>>]

NoScreen == Screen("", "")

\* a USSD run: a Run, the screen it returns when nothing fails, and whether
\* it touches the storage at all
UssdRunOf(commits, reply, screen, reads) ==
    [commits |-> commits, reply |-> reply, raised |-> FALSE, screen |-> screen, reads |-> reads]

\* the city code stored as it was typed
CityCaptureBranch_asis(us, os, phone_number, parts) ==
    LET city_code == Strip(parts[2])
        found == FindUser(us, phone_number)
        us1 == IF found = 0
               THEN Append(us, NewUser(Len(us) + 1, phone_number, Str(city_code), Str(city_code)))
               ELSE [us EXCEPT ![found].city_code = Str(city_code),
                               ![found].location = Str(city_code)]
        uid == FindUser(us1, phone_number)
        us2 == [us1 EXCEPT ![uid].current_session_data = Str(SmsStepNeedArea)]
    IN  UssdRunOf(<<Db(us2, os)>>, Reply("welcome_location_format"),
                  Screen("END", "We have noted your city. We are sending you an SMS."), TRUE)

\* a city capture that seeds the SMS step of a new record only and leaves
\* the step of a known customer as it is
CityCaptureBranch_keep(us, os, phone_number, parts) ==
    LET city_code == Upper(Strip(parts[2]))
        found == FindUser(us, phone_number)
        us1 == IF found = 0
               THEN Append(us, NewUser(Len(us) + 1, phone_number, Str(city_code), Str(city_code)))
               ELSE [us EXCEPT ![found].city_code = Str(city_code),
                               ![found].location = Str(city_code)]
        uid == FindUser(us1, phone_number)
        us2 == IF found = 0
               THEN [us1 EXCEPT ![uid].current_session_data = Str(SmsStepNeedArea)]
               ELSE us1
    IN  UssdRunOf(<<Db(us2, os)>>, Reply("welcome_location_format"),
                  Screen("END", "We have noted your city. We are sending you an SMS."), TRUE)

\* level 2 of branch 1: store the city code and seed the SMS step
CityCaptureBranch(us, os, phone_number, parts) ==
    LET city_code == Upper(Strip(parts[2]))
        found == FindUser(us, phone_number)
        us1 == IF found = 0
               THEN Append(us, NewUser(Len(us) + 1, phone_number, Str(city_code), Str(city_code)))
               ELSE [us EXCEPT ![found].city_code = Str(city_code),
                               ![found].location = Str(city_code)]
        uid == FindUser(us1, phone_number)
        us2 == [us1 EXCEPT ![uid].current_session_data = Str(SmsStepNeedArea)]
    IN  UssdRunOf(<<Db(us2, os)>>, Reply("welcome_location_format"),
                  Screen("END", "We have noted your city. We are sending you an SMS."), TRUE)

\* db.query(Order).filter(Order.user_id == user.id).limit(5).all(), in rowid order
OrdersOfUser(os, user_id) ==
    LET mine == SelectSeq(os, LAMBDA o : o.user_id = user_id)
    IN  IF Len(mine) <= 5 THEN mine ELSE SubSeq(mine, 1, 5)

\* option 2 with a customer record created for an unseen caller
MyOrdersBranch_create(us, os, phone_number) ==
    LET found == FindUser(us, phone_number)
        found_orders == OrdersOfUser(os, us[found].id)
    IN  IF found = 0
        THEN UssdRunOf(<<Db(Append(us, NewUser(Len(us) + 1, phone_number, NULL, NULL)), os)>>, NoReply,
                       Screen("END", "You have no orders yet. Use option 1 to compare prices first."), TRUE)
        ELSE IF found_orders = <<>>
        THEN UssdRunOf(<<>>, NoReply, Screen("END", "You have no orders yet."), TRUE)
        ELSE UssdRunOf(<<>>, NoReply,
                       [Screen("END", "Your recent orders:") EXCEPT
                           !.listed = [i \in 1..Len(found_orders) |->
                                         [id |-> found_orders[i].id,
                                          total_price |-> found_orders[i].total_price,
                                          status |-> found_orders[i].status]]],
                       TRUE)

\* level 1, option 2: list the caller's orders
MyOrdersBranch(us, os, phone_number) ==
    LET found == FindUser(us, phone_number)
        found_orders == OrdersOfUser(os, us[found].id)
    IN  IF found = 0
        THEN UssdRunOf(<<>>, NoReply,
                       Screen("END", "You have no orders yet. Use option 1 to compare prices first."), TRUE)
        ELSE IF found_orders = <<>>
        THEN UssdRunOf(<<>>, NoReply, Screen("END", "You have no orders yet."), TRUE)
        ELSE UssdRunOf(<<>>, NoReply,
                       [Screen("END", "Your recent orders:") EXCEPT
                           !.listed = [i \in 1..Len(found_orders) |->
                                         [id |-> found_orders[i].id,
                                          total_price |-> found_orders[i].total_price,
                                          status |-> found_orders[i].status]]],
                       TRUE)

\* the path split even when it is empty
UssdRun_split(us, os, phone_number, text0) ==
    LET text == Strip(text0)
        parts == StrSplit(text, "*")
        level == Len(parts)
    IN  IF level = 0
        THEN UssdRunOf(<<>>, NoReply,
                       [Screen("CON", "Welcome to PriceChekRider!") EXCEPT
                           !.options = <<"1. Compare Prices", "2. Order Delivery", "3. Help", "4. Exit">>],
                       FALSE)
        ELSE IF level = 1 /\ parts[1] = <<"1">>
        THEN UssdRunOf(<<>>, NoReply, Screen("CON", "Enter your city code (e.g., NAI for Nairobi):"), FALSE)
        ELSE IF level = 2 /\ parts[1] = <<"1">>
        THEN CityCaptureBranch(us, os, phone_number, parts)
        ELSE IF level = 1 /\ parts[1] = <<"4">>
        THEN UssdRunOf(<<>>, NoReply, Screen("END", "Thank you for using PriceChekRider. Goodbye!"), FALSE)
        ELSE IF level = 1 /\ parts[1] = <<"3">>
        THEN UssdRunOf(<<>>, NoReply, Screen("END", "PriceChekRider helps you find the cheapest prices nearby and get delivery."), FALSE)
        ELSE IF level = 1 /\ parts[1] = <<"2">>
        THEN MyOrdersBranch(us, os, phone_number)
        ELSE UssdRunOf(<<>>, NoReply, Screen("END", "Invalid option. Please try again."), FALSE)

\* the city capture taken for every path under "1", however long
UssdRun_deep(us, os, phone_number, text0) ==
    LET text == Strip(text0)
        parts == IF text # <<>> THEN StrSplit(text, "*") ELSE <<>>
        level == Len(parts)
    IN  IF level = 0
        THEN UssdRunOf(<<>>, NoReply,
                       [Screen("CON", "Welcome to PriceChekRider!") EXCEPT
                           !.options = <<"1. Compare Prices", "2. Order Delivery", "3. Help", "4. Exit">>],
                       FALSE)
        ELSE IF level = 1 /\ parts[1] = <<"1">>
        THEN UssdRunOf(<<>>, NoReply, Screen("CON", "Enter your city code (e.g., NAI for Nairobi):"), FALSE)
        ELSE IF level >= 2 /\ parts[1] = <<"1">>
        THEN CityCaptureBranch(us, os, phone_number, parts)
        ELSE IF level = 1 /\ parts[1] = <<"4">>
        THEN UssdRunOf(<<>>, NoReply, Screen("END", "Thank you for using PriceChekRider. Goodbye!"), FALSE)
        ELSE IF level = 1 /\ parts[1] = <<"3">>
        THEN UssdRunOf(<<>>, NoReply, Screen("END", "PriceChekRider helps you find the cheapest prices nearby and get delivery."), FALSE)
        ELSE IF level = 1 /\ parts[1] = <<"2">>
        THEN MyOrdersBranch(us, os, phone_number)
        ELSE UssdRunOf(<<>>, NoReply, Screen("END", "Invalid option. Please try again."), FALSE)

\* the body of _ussd_logic inside its try block
UssdRun(us, os, phone_number, text0) ==
    LET text == Strip(text0)
        parts == IF text # <<>> THEN StrSplit(text, "*") ELSE <<>>
        level == Len(parts)
    IN  IF level = 0
        THEN UssdRunOf(<<>>, NoReply,
                       [Screen("CON", "Welcome to PriceChekRider!") EXCEPT
                           !.options = <<"1. Compare Prices", "2. Order Delivery", "3. Help", "4. Exit">>],
                       FALSE)
        ELSE IF level = 1 /\ parts[1] = <<"1">>
        THEN UssdRunOf(<<>>, NoReply, Screen("CON", "Enter your city code (e.g., NAI for Nairobi):"), FALSE)
        ELSE IF level = 2 /\ parts[1] = <<"1">>
        THEN CityCaptureBranch(us, os, phone_number, parts)
        ELSE IF level = 1 /\ parts[1] = <<"4">>
        THEN UssdRunOf(<<>>, NoReply, Screen("END", "Thank you for using PriceChekRider. Goodbye!"), FALSE)
        ELSE IF level = 1 /\ parts[1] = <<"3">>
        THEN UssdRunOf(<<>>, NoReply, Screen("END", "PriceChekRider helps you find the cheapest prices nearby and get delivery."), FALSE)
        ELSE IF level = 1 /\ parts[1] = <<"2">>
        THEN MyOrdersBranch(us, os, phone_number)
        ELSE UssdRunOf(<<>>, NoReply, Screen("END", "Invalid option. Please try again."), FALSE)

(***************************************************************************)
(* Collaborator outcomes                                                   *)
(***************************************************************************)
\* what may go wrong in the storage during one request: nothing, the first
\* query, or the first or second commit the request performs
Faults == {"none", "query", "commit1", "commit2"}

\* the database a request leaves behind and whether it failed: a commit that
\* fails keeps what the commits before it wrote, and nothing after it runs
Settle(db0, run, fault, reads) ==
    LET states == <<db0>> \o run.commits
        k == IF fault = "commit1" THEN 1 ELSE IF fault = "commit2" THEN 2 ELSE 0
    IN  IF reads /\ fault = "query" THEN [db |-> db0, failed |-> TRUE]
        ELSE IF k \in 1..Len(run.commits) THEN [db |-> states[k], failed |-> TRUE]
        ELSE [db |-> states[Len(states)], failed |-> run.raised]

(***************************************************************************)
(* Inputs                                                                  *)
(***************************************************************************)
\* orders are never deleted: requests that would store more rows than this
\* are not explored
MaxOrders == 2

\* the longest order history explored where orders are listed: one more
\* than a listing holds
MaxHistory == 6

PhoneA == "+254700000001"

PhoneB == "0700000002"

Phones == {PhoneA, PhoneB}

M_order_sp == <<" ", "O", "r", "d", "e", "r", "\n">>

M_cancel == <<"c", "a", "n", "c", "e", "l">>

M_new_sp == <<"n", "e", "w", " ">>

M_loc_sp == <<" ", "n", "a", "i", "-", "k", " ">>

M_loc == <<"N", "A", "I", "-", "K", "i", "l", "e">>

M_loc_long == <<"N", "A", "I", "R", "O", "B", "-", "x">>

M_loc_short == <<"N", "-", "a">>

M_loc_digit == <<"N", "A", "-", "K", "1">>

M_loc_noarea == <<"N", "A", "I", "-">>

M_two == <<" ", "2">>

M_one == <<"1", "\n">>

M_twelve == <<"1", "2">>

M_seps == <<" ", ",", ";">>

M_empty == <<>>

M_sugar_milk == <<"S", "u", "g", "a", "r", ",", " ", "M", "i", "l", "k">>

M_tea_dup == <<"t", "e", "a", ",", "T", "e", "a", ";", "\n", "t", "e", "a">>

M_prices_x == <<"p", "r", "i", "c", "e", "s", ":", "x", ",", " ", "x">>

M_tea_prices == <<"t", "e", "a", ",", "p", "r", "i", "c", "e", "s", ":", "t", "e", "a">>

\* what each phone sends: the three commands in mixed case and with
\* surrounding whitespace, a location, and product lists (known and
\* unknown names, a repeated name, only separators, nothing)
SmsTextsOf(phone_number) ==
    IF phone_number = PhoneA
    THEN {M_order_sp, M_cancel, M_new_sp, M_loc_sp, M_seps, M_sugar_milk, M_prices_x}
    ELSE {M_order_sp, M_new_sp, M_tea_dup, M_empty}

\* product names without padding: the six fixture names in lower, upper and
\* title case, and names the fixture does not have
NameCores ==
    {K_sugar, K_milk, K_bread, K_rice, K_cooking_oil, K_tea,
     Upper(K_sugar), Upper(K_cooking_oil), Title(K_milk), Title(K_cooking_oil), Title(K_tea),
     <<>>, <<"x">>, <<"s", "u", "g", "a">>, <<"s", "u", "g", "a", "r", " ", "2", "k", "g">>, <<"c", "o", "o", "k", "i", "n", "g", " ", " ", "o", "i", "l">>}

\* whitespace put before and after a name
NamePads == {<<>>, <<" ">>, <<"\n", " ">>}

\* the product names the price source is asked for
ProductNames == {a \o n \o b : a \in NamePads, n \in NameCores, b \in NamePads}

\* pieces of token strings: the prefixes and names the decoder knows, and
\* near misses of them
TokenFragments ==
    {<<>>, PricesPrefix, SmsStepPrefix, NeedArea, NeedSearchType, NeedProducts, HaveResults,
     <<"x">>, <<" ">>, <<"N", "e", "e", "d", "_", "A", "r", "e", "a">>, <<"s", "m", "s", "_", "s", "t", "e", "p">>, <<"p", "r", "i", "c", "e", "s">>}

\* the values of current_session_data the decoder is tried on: None, every
\* string made of two fragments, and two results tokens
Tokens ==
    {NULL} \cup {Str(a \o b) : a, b \in TokenFragments}
           \cup {StrJson(PricesPrefix, <<>>),
                 StrJson(PricesPrefix, <<[key |-> <<"x">>, prices |-> DefaultPrices]>>)}

\* the USSD input that enters city code " nai" under option 1
U_1_nai == <<"1", "*", " ", "n", "a", "i">>

U_empty == <<>>

U_blank == <<" ", "\n">>

U_1 == <<"1">>

U_1_sp == <<" ", "1", " ">>

U_2 == <<"2">>

U_3 == <<"3">>

U_4 == <<"4">>

U_5 == <<"5">>

U_1_none == <<"1", "*">>

U_1_nai_x == <<"1", "*", "N", "A", "I", "*", "x">>

U_2_1 == <<"2", "*", "1">>

U_1sp_nai == <<"1", " ", "*", "n", "a", "i">>

\* the accumulated USSD inputs tried: nothing, only whitespace, each menu
\* option, a city code (also an empty one), and paths the menu does not have
UssdTexts ==
    {U_empty, U_blank, U_1, U_1_sp, U_2, U_3, U_4, U_5, U_1_nai, U_1_none, U_1_nai_x, U_2_1,
     U_1sp_nai}

\* what the storage does during a USSD request, which commits at most once
UssdFaults == {"none", "query", "commit1"}

(***************************************************************************)
(* The state machine                                                       *)
(***************************************************************************)
\* the workers that serve requests side by side, each with its own session
\* from SessionLocal()
Workers == {1, 2}

\* a worker that serves no request
Idle ==
    [pc |-> "idle", op |-> "none", phone_number |-> "", text |-> <<>>, id |-> 0,
     seen |-> NULL, newrow |-> NewUser(0, "", NULL, NULL), effects |-> <<>>,
     written |-> FALSE, wrote |-> NULL, unseen |-> FALSE, lost |-> NULL, failed |-> FALSE]

\* get_at_service(): the instance it returns and leaves in the module
\* global; init_ok is whether ATService() constructs without raising
get_at_service(instance, init_ok) ==
    IF instance = "None"
    THEN IF init_ok THEN "ATService" ELSE "MockATService"
    ELSE instance

Init ==
    /\ users = <<>>
    /\ orders = <<>>
    /\ pending = [w \in Workers |-> Idle]
    /\ at_service_instance = "None"
    /\ received = [p \in Phones |-> 0]
    /\ last = [op |-> "none", phone_number |-> "", text |-> <<>>, fault |-> "none",
               sendOk |-> TRUE, token |-> NULL, step |-> <<>>, after_order |-> FALSE,
               status |-> "", message |-> "", reply |-> NoReply,
               sends |-> 0, screen |-> NoScreen]

\* a send failure reported to the channel as a failed request
SmsResponse_sendfatal(end, sendOk) ==
    IF end.failed \/ ~sendOk THEN [status |-> "error", message |-> "Error processing SMS"]
    ELSE [status |-> "success", message |-> "SMS sent successfully"]

\* what handle_incoming_sms hands back: HTTP 500 when the request failed,
\* otherwise status "success" with one of two messages
SmsResponse(end, sendOk) ==
    IF end.failed THEN [status |-> "error", message |-> "Error processing SMS"]
    ELSE IF sendOk THEN [status |-> "success", message |-> "SMS sent successfully"]
    ELSE [status |-> "success",
          message |-> "Request processed; SMS could not be sent (check AT credentials)."]

\* one whole run of handle_incoming_sms.  sendOk is whether
\* at_service.send_sms returns; fault is what the storage does.  The send
\* goes through get_at_service(), which constructs the service the first
\* time (the credentials being in place).  Orders are never deleted: a
\* request that would leave more than cap order rows is not explored.
handle_incoming_sms(phone_number, text, sendOk, fault, cap) ==
    \E run \in {SmsRun(users, orders, phone_number, text)} :
    \E end \in {Settle(Db(users, orders), run, fault, TRUE)} :
    \E response \in {SmsResponse(end, sendOk)} :
        /\ Len(end.db.orders) <= cap
        /\ UNCHANGED pending
        /\ at_service_instance' = IF end.failed THEN at_service_instance
                                  ELSE get_at_service(at_service_instance, TRUE)
        /\ users' = end.db.users
        /\ orders' = end.db.orders
        /\ last' = [op |-> "sms", phone_number |-> phone_number, text |-> text,
                    fault |-> fault, sendOk |-> sendOk,
                    token |-> IF fault = "query" THEN NULL ELSE run.token,
                    step |-> IF fault = "query" THEN <<>> ELSE run.step,
                    after_order |-> /\ last.reply.kind = "order_confirmed"
                                    /\ last.phone_number = phone_number,
                    status |-> response.status,
                    message |-> response.message,
                    reply |-> IF end.failed THEN NoReply ELSE run.reply,
                    sends |-> IF end.failed THEN 0 ELSE 1,
                    screen |-> NoScreen]

\* POST /incoming-sms
IncomingSms(phone_number, text, sendOk, fault, cap) ==
    /\ handle_incoming_sms(phone_number, text, sendOk, fault, cap)
    /\ UNCHANGED received

\* POST /incoming-sms in a conversation whose results replies are counted,
\* up to cap (there are never more than cap orders to compare them with)
CountedSms(phone_number, text, sendOk, fault, cap) ==
    /\ handle_incoming_sms(phone_number, text, sendOk, fault, cap)
    /\ received' = [received EXCEPT ![phone_number] =
                       IF last'.reply.kind = "results" /\ @ < cap THEN @ + 1 ELSE @]

ErrorScreen == Screen("END", "An error occurred. Please try again later.")

\* what _ussd_logic hands back: a storage failure is caught by the outer
\* handler and answered with the error screen; a failed send is caught
\* where it happens and the branch returns its screen all the same
UssdResponse_raise(run, end, sendOk) ==
    IF end.failed THEN [status |-> "error", screen |-> NoScreen]
    ELSE [status |-> "success", screen |-> run.screen]

UssdResponse_sendfatal(run, end, sendOk) ==
    IF end.failed \/ (run.reply # NoReply /\ ~sendOk)
    THEN [status |-> "success", screen |-> ErrorScreen]
    ELSE [status |-> "success", screen |-> run.screen]

UssdResponse(run, end, sendOk) ==
    IF end.failed THEN [status |-> "success", screen |-> ErrorScreen]
    ELSE [status |-> "success", screen |-> run.screen]

\* POST /ussd and /ussd/at: one whole run of _ussd_logic
IncomingUssd(phone_number, text, sendOk, fault) ==
    \E db0 \in {Db(users, orders)} :
    \E run \in {UssdRun(db0.users, db0.orders, phone_number, text)} :
    \E end \in {Settle(db0, run, fault, run.reads)} :
    \E sending \in {~end.failed /\ run.reply # NoReply} :
    \E response \in {UssdResponse(run, end, sendOk)} :
        /\ UNCHANGED <<pending, received>>
        /\ at_service_instance' = IF sending THEN get_at_service(at_service_instance, TRUE)
                                  ELSE at_service_instance
        /\ users' = end.db.users
        /\ orders' = end.db.orders
        /\ last' = [op |-> "ussd", phone_number |-> phone_number, text |-> text,
                    fault |-> fault, sendOk |-> sendOk,
                    token |-> IF run.reads /\ fault # "query"
                                   /\ FindUser(db0.users, phone_number) # 0
                              THEN db0.users[FindUser(db0.users, phone_number)].current_session_data
                              ELSE NULL,
                    step |-> <<>>, after_order |-> FALSE,
                    status |-> response.status, message |-> "",
                    reply |-> IF sending THEN run.reply ELSE NoReply,
                    sends |-> IF sending THEN 1 ELSE 0,
                    screen |-> response.screen]

\* _parse_sms_step applied to a value of current_session_data
Decode(session_data) ==
    /\ UNCHANGED <<users, orders, pending, at_service_instance, received>>
    /\ last' = [op |-> "decode", phone_number |-> "", text |-> <<>>, fault |-> "none",
                sendOk |-> TRUE, token |-> session_data, step |-> ParseSmsStep(session_data),
                after_order |-> FALSE, status |-> "", message |-> "", reply |-> NoReply,
                sends |-> 0, screen |-> NoScreen]

\* ---- the notifier: ATService.send_sms ----

\* the number with a leading "0" kept behind the prefix
Normalize_keepzero(phone) ==
    IF ~StartsWith(phone, <<"+">>)
    THEN IF StartsWith(phone, <<"0">>) THEN <<"+", "2", "5", "4">> \o phone
         ELSE IF StartsWith(phone, <<"2", "5", "4">>) THEN <<"+">> \o phone
         ELSE <<"+", "2", "5", "4">> \o phone
    ELSE phone

\* the phone number rewritten to international format before sending
Normalize(phone) ==
    IF ~StartsWith(phone, <<"+">>)
    THEN IF StartsWith(phone, <<"0">>) THEN <<"+", "2", "5", "4">> \o SubSeq(phone, 2, Len(phone))
         ELSE IF StartsWith(phone, <<"2", "5", "4">>) THEN <<"+">> \o phone
         ELSE <<"+", "2", "5", "4">> \o phone
    ELSE phone

\* one call of a transport and how it ended
Attempt(transport, outcome) == [transport |-> transport, outcome |-> outcome]

RECURSIVE SdkLoop(_, _)
\* for attempt in range(2): the SDK calls made from the given attempt on;
\* sdk[k] is how the k-th SDK call ends, should it be made. Only an SSL
\* error of the first call is retried.
SdkLoop(sdk, attempt) ==
    IF attempt >= 2 THEN <<>>
    ELSE IF sdk[attempt + 1] = "ok" THEN <<Attempt("sdk", "ok")>>
    ELSE IF sdk[attempt + 1] = "ssl_error" /\ attempt = 0
         THEN <<Attempt("sdk", sdk[attempt + 1])>> \o SdkLoop(sdk, attempt + 1)
    ELSE <<Attempt("sdk", sdk[attempt + 1])>>

\* the result of send_sms: the number sent to, the transport calls made in
\* order, and whether the call returned a response or raised
Sent(phone, attempts) ==
    [phone |-> phone, attempts |-> attempts,
     result |-> IF attempts # <<>> /\ attempts[Len(attempts)].outcome = "ok"
                THEN "returned" ELSE "raised"]

\* send_sms giving up when the SDK has failed, without the direct call
send_sms_sdkonly(phone, api_username, direct, sdk) ==
    LET to == Normalize(phone)
        use_direct_first == api_username = "sandbox"
        first == IF use_direct_first THEN <<Attempt("direct", direct)>> ELSE <<>>
        loop == SdkLoop(sdk, 0)
    IN  IF use_direct_first /\ direct = "ok" THEN Sent(to, first)
        ELSE Sent(to, first \o loop)

\* ATService.send_sms(phone, message): direct is how the direct HTTP call
\* ends, should it be made
send_sms(phone, api_username, direct, sdk) ==
    LET to == Normalize(phone)
        use_direct_first == api_username = "sandbox"
        first == IF use_direct_first THEN <<Attempt("direct", direct)>> ELSE <<>>
        loop == SdkLoop(sdk, 0)
    IN  IF use_direct_first /\ direct = "ok" THEN Sent(to, first)
        ELSE IF loop[Len(loop)].outcome = "ok" THEN Sent(to, first \o loop)
        ELSE IF ~use_direct_first THEN Sent(to, first \o loop \o <<Attempt("direct", direct)>>)
        ELSE Sent(to, first \o loop)

\* the phone numbers handed to send_sms
SendPhones ==
    {<<"+", "2", "5", "4", "7", "1", "2">>,
     <<"0", "7", "1", "2">>,
     <<"2", "5", "4", "7", "1", "2">>,
     <<"7", "1", "2">>,
     <<>>,
     <<"+">>,
     <<"0">>,
     <<"2", "5", "4">>,
     <<"+", "1", "2", "0", "2">>,
     <<"0", "0", "7", "1", "2">>,
     <<"2", "5">>,
     <<"0", "2", "5", "4", "7", "1", "2">>,
     <<"+", "0", "7", "1", "2">>,
     <<"2", "5", "4", "0", "7", "1", "2">>}

\* the accounts the service is set up with
ApiUsernames == {"sandbox", "production"}

\* how a direct HTTP call can end
DirectOutcomes == {"ok", "error"}

\* how an SDK call can end: a response, an SSL error, any other error
SdkOutcomes == {"ok", "ssl_error", "error"}

\* one send_sms call
SendSms(phone, api_username, direct, sdk) ==
    /\ UNCHANGED <<users, orders, pending, at_service_instance, received>>
    /\ last' = [op |-> "send_sms", phone |-> phone, api_username |-> api_username,
                direct |-> direct, sdk |-> sdk,
                sent |-> send_sms(phone, api_username, direct, sdk)]

\* MockATService.send_sms: logs and returns {"status": "mocked"}; nothing
\* is sent and the number is not rewritten
MockSent(phone) == [phone |-> phone, attempts |-> <<>>, result |-> "mocked"]

\* at_service.send_sms(phone, message) through ATServiceProxy:
\* get_at_service().send_sms(...).  init_ok is whether ATService() would
\* construct at the moment of the call; constructs is the number of times
\* this call ran ATService().  The account is the one of the default AT_ENV.
ProxySendSms(phone, init_ok, direct, sdk) ==
    /\ at_service_instance' = get_at_service(at_service_instance, init_ok)
    /\ UNCHANGED <<users, orders, pending, received>>
    /\ last' = [op |-> "proxy_send_sms", phone |-> phone, init_ok |-> init_ok,
                direct |-> direct, sdk |-> sdk,
                constructs |-> IF at_service_instance = "None" THEN 1 ELSE 0,
                sent |-> IF at_service_instance' = "MockATService" THEN MockSent(phone)
                         ELSE send_sms(phone, "sandbox", direct, sdk)]

\* ---- requests served side by side ----

\* one column of an UPDATE: whether the flush writes it, and the value
Col(before, after) == [set |-> after # before, value |-> after]

\* what one commit sends to the database, from the session's view before
\* and after it: an UPDATE of the columns of the user row that changed, by
\* primary key, and an INSERT for each new order
EffectOf(before, after) ==
    [token |-> Col(before.users[1].current_session_data, after.users[1].current_session_data),
     city_code |-> Col(before.users[1].city_code, after.users[1].city_code),
     location |-> Col(before.users[1].location, after.users[1].location),
     orders |-> SubSeq(after.orders, Len(before.orders) + 1, Len(after.orders))]

\* the commits a handler goes on to make once it holds the user row: the
\* branches run on the session's own view, the loaded row alone
EffectsOf(op, row, text) ==
    LET view == Db(<<row>>, <<>>)
        commits == IF op = "sms" THEN SmsDispatch(<<row>>, <<>>, 1, Strip(text)).commits
                   ELSE UssdRun(<<row>>, <<>>, row.phone_number, text).commits
        states == <<view>> \o commits
    IN  [k \in 1..Len(commits) |-> EffectOf(states[k], states[k + 1])]

\* the row a handler adds for a number it did not find: User(phone_number)
\* in the SMS handler, the row with city code, location and token in the
\* USSD city capture
RowToAdd(op, phone_number, text) ==
    IF op = "sms" THEN NewUser(0, phone_number, NULL, NULL)
    ELSE UssdRun(<<>>, <<>>, phone_number, text).commits[1].users[1]

RECURSIVE OrdersIn(_, _)
\* the orders the first n of a sequence of commits insert
OrdersIn(effects, n) ==
    IF n = 0 THEN 0 ELSE OrdersIn(effects, n - 1) + Len(effects[n].orders)

\* the handler holding the row it loaded, about to make its commits
Loaded(w, row, effects) ==
    [pending[w] EXCEPT !.pc = IF effects = <<>> THEN "done" ELSE "loaded",
                       !.id = row.id,
                       !.seen = row.current_session_data,
                       !.effects = effects]

\* db.query(User).filter(User.phone_number == phone_number).first() of a
\* new request taken by worker w
QueryUser(w, op, phone_number, text, cap) ==
    \E found \in {FindUser(users, phone_number)} :
    \E effects \in {IF found = 0 THEN <<>> ELSE EffectsOf(op, users[found], text)} :
    \E start \in {[Idle EXCEPT !.op = op, !.phone_number = phone_number, !.text = text]} :
        /\ pending[w].pc \in {"idle", "done"}
        /\ Len(orders) + OrdersIn(effects, Len(effects))
             + OrdersIn(pending[3 - w].effects, Len(pending[3 - w].effects)) <= cap
        /\ pending' = [pending EXCEPT ![w] =
                IF found = 0
                THEN [start EXCEPT !.pc = "create", !.newrow = RowToAdd(op, phone_number, text)]
                ELSE [start EXCEPT !.pc = IF effects = <<>> THEN "done" ELSE "loaded",
                                   !.id = users[found].id,
                                   !.seen = users[found].current_session_data,
                                   !.effects = effects]]
        /\ UNCHANGED <<users, orders, last, at_service_instance, received>>

\* a row added for the number whether or not the number has one
CreateUser_dup(w) ==
    /\ pending[w].pc = "create"
    /\ users' = Append(users, [pending[w].newrow EXCEPT !.id = Len(users) + 1])
    /\ pending' = [pending EXCEPT ![w] =
            IF pending[w].op = "sms"
            THEN [@ EXCEPT !.pc = "expired", !.id = Len(users) + 1]
            ELSE [@ EXCEPT !.pc = "done", !.id = Len(users) + 1, !.written = TRUE,
                           !.wrote = pending[w].newrow.current_session_data]]
    /\ UNCHANGED <<orders, last, at_service_instance, received>>

\* db.add(user); db.commit() for a number that had no row when it was
\* queried: the INSERT fails on the unique phone_number when a row has been
\* added since, and the handler's except branch ends the request
CreateUser(w) ==
    /\ pending[w].pc = "create"
    /\ IF FindUser(users, pending[w].phone_number) # 0
       THEN /\ pending' = [pending EXCEPT ![w].pc = "done", ![w].failed = TRUE]
            /\ UNCHANGED users
       ELSE /\ users' = Append(users, [pending[w].newrow EXCEPT !.id = Len(users) + 1])
            /\ pending' = [pending EXCEPT ![w] =
                    IF pending[w].op = "sms"
                    THEN [@ EXCEPT !.pc = "expired", !.id = Len(users) + 1]
                    ELSE [@ EXCEPT !.pc = "done", !.id = Len(users) + 1, !.written = TRUE,
                                   !.wrote = pending[w].newrow.current_session_data]]
    /\ UNCHANGED <<orders, last, at_service_instance, received>>

\* user.current_session_data read after the commit that added the row: the
\* commit expired the object, so the row is loaded again by its id
RefreshUser(w) ==
    /\ pending[w].pc = "expired"
    /\ \E row \in {users[pending[w].id]} :
       \E effects \in {EffectsOf(pending[w].op, row, pending[w].text)} :
           pending' = [pending EXCEPT ![w] = Loaded(w, row, effects)]
    /\ UNCHANGED <<users, orders, last, at_service_instance, received>>

\* the user row after the UPDATE of one commit
Updated(row, effect) ==
    [row EXCEPT !.current_session_data = IF effect.token.set THEN effect.token.value ELSE @,
                !.city_code = IF effect.city_code.set THEN effect.city_code.value ELSE @,
                !.location = IF effect.location.set THEN effect.location.value ELSE @]

\* the token the handler of worker w takes the row to hold: the one it
\* wrote last, or else the one it read
Known(w) == IF pending[w].written THEN pending[w].wrote ELSE pending[w].seen

\* the worker's record after a commit: the token it wrote, and the token it
\* replaced when that is one it had neither read nor written
Committed(w, effect) ==
    LET stale == effect.token.set /\ users[pending[w].id].current_session_data # Known(w)
    IN  [pending[w] EXCEPT
            !.pc = IF Len(pending[w].effects) = 1 THEN "done" ELSE "loaded",
            !.effects = Tail(pending[w].effects),
            !.written = @ \/ effect.token.set,
            !.wrote = IF effect.token.set THEN effect.token.value ELSE @,
            !.unseen = @ \/ stale,
            !.lost = IF stale THEN users[pending[w].id].current_session_data ELSE @]

\* a commit that is refused when the token is no longer the one the handler
\* read or wrote
CommitStep_checked(w) ==
    /\ pending[w].pc = "loaded"
    /\ \E effect \in {pending[w].effects[1]} :
        IF users[pending[w].id].current_session_data # Known(w)
           THEN /\ pending' = [pending EXCEPT ![w].pc = "done", ![w].effects = <<>>,
                                               ![w].failed = TRUE]
                /\ UNCHANGED <<users, orders>>
           ELSE /\ users' = [users EXCEPT ![pending[w].id] = Updated(@, effect)]
                /\ orders' = orders \o [i \in 1..Len(effect.orders) |->
                                           [effect.orders[i] EXCEPT !.id = Len(orders) + i]]
                /\ pending' = [pending EXCEPT ![w] = Committed(w, effect)]
    /\ UNCHANGED <<last, at_service_instance, received>>

\* db.commit() of the next commit of the handler: the UPDATE goes to the
\* row by its id, whatever the row holds by now
CommitStep(w) ==
    /\ pending[w].pc = "loaded"
    /\ \E effect \in {pending[w].effects[1]} :
        /\ users' = [users EXCEPT ![pending[w].id] = Updated(@, effect)]
        /\ orders' = orders \o [i \in 1..Len(effect.orders) |->
                                   [effect.orders[i] EXCEPT !.id = Len(orders) + i]]
        /\ pending' = [pending EXCEPT ![w] = Committed(w, effect)]
    /\ UNCHANGED <<last, at_service_instance, received>>

\* MockScraper.get_prices applied to a product name
GetPrices(product_name) ==
    /\ UNCHANGED <<users, orders, pending, at_service_instance, received>>
    /\ last' = [op |-> "get_prices", product_name |-> product_name,
                prices |-> get_prices(product_name)]

\* SMS requests of two customers served one at a time, with the storage and
\* the notifier working
Next ==
    \/ \E p \in Phones : \E t \in SmsTextsOf(p) : IncomingSms(p, t, TRUE, "none", MaxOrders)

Spec == Init /\ [][Next]_vars

\* the locations tried in the location step: two that match the pattern
\* and four that miss it (six letters, one letter, a digit, no area)
AreaTexts == {M_loc, M_loc_sp, M_loc_long, M_loc_short, M_loc_digit, M_loc_noarea}

\* One customer answering the location prompt, with the commands and the
\* USSD city capture that bring the conversation back to the location step
NextArea ==
    \/ \E t \in AreaTexts \cup {M_new_sp, M_cancel, M_two, M_one, M_twelve} :
          IncomingSms(PhoneA, t, TRUE, "none", MaxOrders)
    \/ IncomingUssd(PhoneA, U_1_nai, TRUE, "none")

SpecArea == Init /\ [][NextArea]_vars

\* The USSD menu with a storage and a notifier that may fail, for a caller
\* who also searches and orders by SMS and a second caller
NextUssd ==
    \/ \E t \in UssdTexts : \E sendOk \in BOOLEAN : \E fault \in UssdFaults :
          IncomingUssd(PhoneA, t, sendOk, fault)
    \/ \E t \in {U_1_nai, U_2} : IncomingUssd(PhoneB, t, TRUE, "none")
    \/ \E t \in {M_new_sp, M_cancel, M_sugar_milk, M_order_sp} :
          IncomingSms(PhoneA, t, TRUE, "none", MaxOrders)

SpecUssd == Init /\ [][NextUssd]_vars

\* Two customers who search and order by SMS again and again and look at
\* their orders under option 2
NextListing ==
    \/ \E p \in Phones : \E t \in {M_new_sp, M_order_sp} \cup (SmsTextsOf(p) \cap {M_sugar_milk, M_tea_dup}) :
          IncomingSms(p, t, TRUE, "none", MaxHistory)
    \/ \E p \in Phones : IncomingUssd(p, U_2, TRUE, "none")

SpecListing == Init /\ [][NextListing]_vars

\* the SMS texts sent while the collaborators may fail: two commands, a
\* location and a product list
FaultTexts == {M_order_sp, M_new_sp, M_loc, M_sugar_milk}

\* what the collaborators do during one request, as <<sendOk, fault>>: a
\* send is only reached, and so can only fail, when the storage did not
Outcomes == {<<TRUE, "none">>, <<FALSE, "none">>} \cup {<<TRUE, f>> : f \in Faults \ {"none"}}

\* One customer's SMS requests, with a storage and a notifier that may fail
NextFaults ==
    \/ \E t \in FaultTexts : \E o \in Outcomes : IncomingSms(PhoneA, t, o[1], o[2], MaxOrders)

SpecFaults == Init /\ [][NextFaults]_vars

\* The price source on its own, asked for every name of ProductNames
NextPrices ==
    \/ \E product_name \in ProductNames : GetPrices(product_name)

SpecPrices == Init /\ [][NextPrices]_vars

\* The notifier on its own: every number, account and transport outcome
NextSend ==
    \/ \E phone \in SendPhones : \E api_username \in ApiUsernames :
       \E direct \in DirectOutcomes : \E sdk \in SdkOutcomes \X SdkOutcomes :
           SendSms(phone, api_username, direct, sdk)

SpecSend == Init /\ [][NextSend]_vars

\* what the customer of the journey sends by SMS: the commands, a location,
\* a search type, product lists and a message without product names
JourneyTexts ==
    {M_new_sp, M_order_sp, M_cancel, M_loc, M_one, M_sugar_milk, M_tea_prices, M_seps}

\* One customer going back and forth between the USSD menu and the SMS
\* conversation, with the storage and the notifier working
NextJourney ==
    \/ \E t \in JourneyTexts : IncomingSms(PhoneA, t, TRUE, "none", MaxOrders)
    \/ \E t \in {U_1_nai, U_2} : IncomingUssd(PhoneA, t, TRUE, "none")

SpecJourney == Init /\ [][NextJourney]_vars

\* what the customer whose results replies are counted sends
CountedTexts == {M_new_sp, M_sugar_milk, M_order_sp}

\* One customer searching and ordering by SMS, requests handled one at a
\* time, with a storage that may fail; the results replies are counted
NextCounted ==
    \/ \E t \in CountedTexts : \E fault \in Faults :
          CountedSms(PhoneA, t, TRUE, fault, MaxOrders)

SpecCounted == Init /\ [][NextCounted]_vars

\* The notifier behind its proxy: calls made while ATService() can or cannot
\* be constructed
NextService ==
    \/ \E phone \in SendPhones : \E init_ok \in BOOLEAN :
       \E direct \in DirectOutcomes : \E sdk \in SdkOutcomes \X SdkOutcomes :
           ProxySendSms(phone, init_ok, direct, sdk)

SpecService == Init /\ [][NextService]_vars

\* the requests that arrive side by side: a search, NEW and ORDER by SMS,
\* and the USSD city capture
RaceRequests ==
    {<<"sms", M_new_sp>>, <<"sms", M_sugar_milk>>, <<"sms", M_order_sp>>, <<"ussd", U_1_nai>>}

\* the orders placed while requests are served side by side
MaxRaceOrders == 1

\* Two workers serving requests of one phone number, and now and then of a
\* second one, their queries and commits interleaved in every order
NextRace ==
    \/ \E w \in Workers : \E r \in RaceRequests : QueryUser(w, r[1], PhoneA, r[2], MaxRaceOrders)
    \/ \E w \in Workers : QueryUser(w, "sms", PhoneB, M_new_sp, MaxRaceOrders)
    \/ \E w \in Workers : CreateUser(w)
    \/ \E w \in Workers : RefreshUser(w)
    \/ \E w \in Workers : CommitStep(w)

SpecRace == Init /\ [][NextRace]_vars

\* The decoder on its own, tried on every token of Tokens
NextDecode ==
    \/ \E session_data \in Tokens : Decode(session_data)

SpecDecode == Init /\ [][NextDecode]_vars

(***************************************************************************)
(* Properties                                                              *)
(***************************************************************************)
\* the users row of a phone number, for a phone number that has one
HasUser(us, p) == \E i \in 1..Len(us) : us[i].phone_number = p

UserRow(us, p) == us[CHOOSE i \in 1..Len(us) : us[i].phone_number = p]

\* the stored token and location of a phone number; NULL without a row
TokenOf(us, p) == IF HasUser(us, p) THEN UserRow(us, p).current_session_data ELSE NULL

LocationOf(us, p) == IF HasUser(us, p) THEN UserRow(us, p).location ELSE NULL

\* the four conversation states, on the tokens the engines write
TokenNeedArea(tok) == tok.isNull \/ tok = Str(NeedArea) \/ tok = Str(SmsStepNeedArea)

TokenNeedSearchType(tok) == tok = Str(NeedSearchType)

TokenNeedProducts(tok) == tok = Str(NeedProducts)

TokenHaveResults(tok) == ~tok.isNull /\ tok.hasObj /\ tok.text = PricesPrefix

\* the trimmed text equals the command in any letter case
IsCmd(text, cmd) == Upper(Strip(text)) = cmd

IsAnyCmd(text) == IsCmd(text, CmdOrder) \/ IsCmd(text, CmdCancel) \/ IsCmd(text, CmdNew)

\* an SMS request that was processed (no storage failure)
SmsDone(l) == l.op = "sms" /\ l.status = "success"

\* the minimum price of a non-empty offer list
MinPrice(prices) ==
    CHOOSE m \in {prices[i].price : i \in 1..Len(prices)} :
        \A j \in 1..Len(prices) : m <= prices[j].price

RECURSIVE SumMinOverNames(_)
\* the sum of the minimum offer price over a set of product names
SumMinOverNames(names) ==
    IF names = {} THEN 0
    ELSE LET n == CHOOSE x \in names : TRUE
         IN  MinPrice(get_prices(n)) + SumMinOverNames(names \ {n})

RECURSIVE SumMinOverSnapshot(_, _)
\* the sum of the minimum offer price over the first n products of a snapshot
SumMinOverSnapshot(snapshot, n) ==
    IF n = 0 THEN 0
    ELSE MinPrice(snapshot[n].prices) + SumMinOverSnapshot(snapshot, n - 1)

\* the product names a message asks for that have at least one offer
RequestedNames(text) ==
    LET products == ProductsOf(Strip(text))
    IN  {products[i] : i \in {j \in 1..Len(products) : get_prices(products[j]) # <<>>}}

\* <2-5 letters>-<letters>
IsCityArea(s) ==
    LET dashes == {i \in 1..Len(s) : s[i] = "-"}
    IN  /\ Cardinality(dashes) = 1
        /\ \A k \in dashes : k - 1 \in 2..5 /\ Len(s) > k
        /\ \A i \in (1..Len(s)) \ dashes : IsLetter(s[i])

\* C1: an ORDER handled for a customer whose stored token is a HaveResults
\* snapshot, with the storage working, creates exactly one new order row,
\* owned by that customer, PENDING, with one item per product of the
\* snapshot, and leaves the customer in NeedProducts.
C1_OrderFromSnapshot ==
    [][ (/\ SmsDone(last')
         /\ IsCmd(last'.text, CmdOrder)
         /\ TokenHaveResults(TokenOf(users, last'.phone_number)))
        => LET p == last'.phone_number
               snapshot == TokenOf(users, p).obj
               order == orders'[Len(orders')]
           IN  /\ Len(orders') = Len(orders) + 1
               /\ SubSeq(orders', 1, Len(orders)) = orders
               /\ order.user_id = UserRow(users', p).id
               /\ order.status = "PENDING"
               /\ Len(order.items) = Len(snapshot)
               /\ \A i \in 1..Len(snapshot) :
                     \E j \in 1..Len(order.items) : order.items[j].product = snapshot[i].key
               /\ TokenOf(users', p) = Str(NeedProducts) ]_vars

\* C2: the order created by ORDER has total_price equal to the sum over the
\* snapshot's products of the minimum offer price, plus the delivery fee 150.
C2_OrderTotal ==
    [][ (/\ SmsDone(last')
         /\ IsCmd(last'.text, CmdOrder)
         /\ TokenHaveResults(TokenOf(users, last'.phone_number))
         /\ Len(orders') = Len(orders) + 1)
        => LET snapshot == TokenOf(users, last'.phone_number).obj
           IN  orders'[Len(orders')].total_price
                   = SumMinOverSnapshot(snapshot, Len(snapshot)) + 150 ]_vars

\* C3: the total-cheapest of a results reply is the sum, over the requested
\* product names that have at least one offer, of the minimum offer price of
\* that name (a name asked for twice counts once).
C3_TotalCheapest ==
    (SmsDone(last) /\ last.reply.kind = "results")
        => last.reply.total = SumMinOverNames(RequestedNames(last.text))

\* a results reply to a list that repeats a name and whose cheapest offer
\* is not the first offer: "tea, Tea; tea" totals 92 + 92
C3_Witness ==
    /\ SmsDone(last)
    /\ last.reply.kind = "results"
    /\ last.text = M_tea_dup
    /\ last.reply.total = 184

\* C4: in NeedProducts or HaveResults, a message that is no command and
\* names at least one product with offers leaves a HaveResults token whose
\* snapshot holds exactly this request's product names, each with the offers
\* of the price source: nothing of an earlier snapshot is kept.
C4_SnapshotReplaced ==
    [][ \A names \in {IF /\ SmsDone(last')
                          /\ \/ TokenNeedProducts(TokenOf(users, last'.phone_number))
                             \/ TokenHaveResults(TokenOf(users, last'.phone_number))
                          /\ ~IsAnyCmd(last'.text)
                       THEN RequestedNames(last'.text) ELSE {}} :
            names # {}
            => \E tok \in {TokenOf(users', last'.phone_number)} :
                   /\ TokenHaveResults(tok)
                   /\ {tok.obj[i].key : i \in 1..Len(tok.obj)} = names
                   /\ Len(tok.obj) = Cardinality(names)
                   /\ \A i \in 1..Len(tok.obj) : tok.obj[i].prices = get_prices(tok.obj[i].key) ]_vars

\* "Sugar, Milk" sent by a customer who already had a snapshot: the stored
\* snapshot is now Sugar and Milk only
C4_Witness ==
    /\ SmsDone(last)
    /\ last.step = HaveResults
    /\ last.text = M_sugar_milk
    /\ LET tok == TokenOf(users, last.phone_number)
       IN  /\ TokenHaveResults(tok)
           /\ DictKeys(tok.obj) = << <<"S", "u", "g", "a", "r">>, <<"M", "i", "l", "k">> >>

\* C5: a message of the form <2-5 letters>-<letters> received in NeedArea
\* moves the customer to NeedSearchType and stores the trimmed message as
\* the location.
C5_LocationAccepted ==
    [][ (/\ SmsDone(last')
         /\ TokenNeedArea(TokenOf(users, last'.phone_number))
         /\ IsCityArea(Strip(last'.text)))
        => /\ TokenNeedSearchType(TokenOf(users', last'.phone_number))
           /\ LocationOf(users', last'.phone_number) = Str(Strip(last'.text)) ]_vars

\* " nai-k " was sent in NeedArea and "nai-k" is the stored location
C5_Witness ==
    /\ SmsDone(last)
    /\ last.step = NeedArea
    /\ last.text = M_loc_sp
    /\ TokenNeedSearchType(TokenOf(users, last.phone_number))
    /\ LocationOf(users, last.phone_number) = Str(<<"n", "a", "i", "-", "k">>)

\* C6 as stated: every message received in NeedArea that does not match the
\* pattern leaves the token and the location unchanged and is answered with
\* the location-format prompt.
C6_AnyMismatchReprompts ==
    [][ (/\ SmsDone(last')
         /\ TokenNeedArea(TokenOf(users, last'.phone_number))
         /\ ~IsCityArea(Strip(last'.text)))
        => /\ TokenOf(users', last'.phone_number) = TokenOf(users, last'.phone_number)
           /\ LocationOf(users', last'.phone_number) = LocationOf(users, last'.phone_number)
           /\ last'.reply.kind = "location_format" ]_vars

\* C6 amended: every message received in NeedArea that is none of the
\* commands ORDER, CANCEL, NEW and does not match the pattern leaves the
\* token and the location unchanged and is answered with the
\* location-format prompt.
C6_MismatchReprompts ==
    [][ (/\ SmsDone(last')
         /\ TokenNeedArea(TokenOf(users, last'.phone_number))
         /\ ~IsAnyCmd(last'.text)
         /\ ~IsCityArea(Strip(last'.text)))
        => /\ TokenOf(users', last'.phone_number) = TokenOf(users, last'.phone_number)
           /\ LocationOf(users', last'.phone_number) = LocationOf(users, last'.phone_number)
           /\ last'.reply.kind = "location_format" ]_vars

\* "NAIROB-x" (six letters before the dash) was sent after a USSD city
\* capture and was answered with the prompt; the token is still the one
\* the capture wrote
C6_Witness ==
    /\ SmsDone(last)
    /\ last.step = NeedArea
    /\ last.text = M_loc_long
    /\ last.reply.kind = "location_format"
    /\ TokenOf(users, last.phone_number) = Str(SmsStepNeedArea)

\* C7: NEW, in any letter case and in any conversation state, sets the
\* state to NeedProducts, is answered with the product-list prompt and
\* creates no order.
C7_NewResets ==
    [][ (SmsDone(last') /\ IsCmd(last'.text, CmdNew))
        => /\ TokenNeedProducts(TokenOf(users', last'.phone_number))
           /\ last'.reply.kind = "list_products"
           /\ orders' = orders ]_vars

\* "new " was sent by a customer holding a snapshot
C7_Witness ==
    /\ SmsDone(last)
    /\ last.text = M_new_sp
    /\ last.step = HaveResults
    /\ TokenNeedProducts(TokenOf(users, last.phone_number))
    /\ last.reply.kind = "list_products"

\* C8: CANCEL, in any conversation state, sets the state to NeedProducts,
\* is answered with the cancellation acknowledgement and leaves every order
\* row as it was.
C8_CancelKeepsOrders ==
    [][ (SmsDone(last') /\ IsCmd(last'.text, CmdCancel))
        => /\ TokenNeedProducts(TokenOf(users', last'.phone_number))
           /\ last'.reply.kind = "order_cancelled"
           /\ orders' = orders ]_vars

\* "cancel" was sent by a customer who has an order, and it is still PENDING
C8_Witness ==
    /\ SmsDone(last)
    /\ last.text = M_cancel
    /\ last.reply.kind = "order_cancelled"
    /\ \E i \in 1..Len(orders) :
          /\ orders[i].user_id = UserRow(users, last.phone_number).id
          /\ orders[i].status = "PENDING"

\* C9: a message that is ORDER, CANCEL or NEW after trimming, in any letter
\* case, is answered by the branch of that command in every state: it is
\* never stored as a location, never answered as a search-type choice and
\* never priced as a product list.
C9_CommandsFirst ==
    [][ (SmsDone(last') /\ IsAnyCmd(last'.text))
        => /\ IsCmd(last'.text, CmdOrder)
                => last'.reply.kind \in {"order_confirmed", "no_recent_comparison"}
           /\ IsCmd(last'.text, CmdCancel) => last'.reply.kind = "order_cancelled"
           /\ IsCmd(last'.text, CmdNew) => last'.reply.kind = "list_products"
           /\ LocationOf(users', last'.phone_number) = LocationOf(users, last'.phone_number)
           /\ ~TokenHaveResults(TokenOf(users', last'.phone_number)) ]_vars

\* " Order\n" was sent in step need_search_type and was answered by the
\* ORDER branch
C9_Witness ==
    /\ SmsDone(last)
    /\ last.text = M_order_sp
    /\ last.step = NeedSearchType
    /\ last.reply.kind = "no_recent_comparison"

\* C10 as stated: an ORDER that directly follows a confirmed ORDER of the
\* same customer creates an order row too.
C10_SecondOrderCreates ==
    [][ (/\ SmsDone(last')
         /\ IsCmd(last'.text, CmdOrder)
         /\ last'.after_order)
        => Len(orders') = Len(orders) + 1 ]_vars

\* C10 amended: an ORDER that directly follows a confirmed ORDER of the same
\* customer creates no order row and is answered that no recent price
\* comparison exists; one snapshot yields one order.
C10_SecondOrderCreatesNone ==
    [][ (/\ SmsDone(last')
         /\ IsCmd(last'.text, CmdOrder)
         /\ last'.after_order)
        => /\ orders' = orders
           /\ last'.reply.kind = "no_recent_comparison" ]_vars

\* a second ORDER was sent right after a confirmed one
C10_Witness ==
    /\ SmsDone(last)
    /\ IsCmd(last.text, CmdOrder)
    /\ last.after_order
    /\ last.reply.kind = "no_recent_comparison"
    /\ orders # <<>>

\* the tokens the decoder recognizes: a results token, one of the three step
\* names, or a step name behind "sms_step:"
Recognized(tok) ==
    /\ ~tok.isNull
    /\ \/ StartsWith(tok.text, PricesPrefix)
       \/ /\ ~tok.hasObj
          /\ tok.text \in {NeedArea, NeedSearchType, NeedProducts}
                          \cup {SmsStepPrefix \o v : v \in {NeedArea, NeedSearchType, NeedProducts}}

\* C11: the decoder maps every token to one of NeedArea, NeedSearchType,
\* NeedProducts, HaveResults, and maps an absent token and every
\* unrecognized token string to NeedArea.
C11_DecodesToVariant ==
    last.op = "decode"
    => /\ last.step \in {NeedArea, NeedSearchType, NeedProducts, HaveResults}
       /\ (last.token.isNull \/ ~Recognized(last.token)) => last.step = NeedArea

\* the segments of an accumulated USSD input, none for an empty input
PathOf(text) == IF Strip(text) = <<>> THEN <<>> ELSE StrSplit(Strip(text), "*")

\* a two-segment path whose first segment is "1"
IsCityPath(text) == Len(PathOf(text)) = 2 /\ PathOf(text)[1] = <<"1">>

UssdDone(l) == l.op = "ussd"

AckScreen == Screen("END", "We have noted your city. We are sending you an SMS.")

\* the caller has one record, city code and location are the upper-cased
\* trimmed second segment, and the token decodes to NeedArea
CityStored(us, phone_number, text) ==
    /\ Cardinality({i \in 1..Len(us) : us[i].phone_number = phone_number}) = 1
    /\ UserRow(us, phone_number).city_code = Str(Upper(Strip(PathOf(text)[2])))
    /\ UserRow(us, phone_number).location = Str(Upper(Strip(PathOf(text)[2])))
    /\ ParseSmsStep(TokenOf(us, phone_number)) = NeedArea

\* C12: a USSD call with an empty path (after trimming) returns the CON
\* screen with exactly the four menu options, writes nothing to the storage
\* and sends nothing, whatever the collaborators would do.
C12_EmptyPathMenu ==
    [][ (UssdDone(last') /\ Strip(last'.text) = <<>>)
        => /\ last'.screen.kind = "CON"
           /\ last'.screen.options = <<"1. Compare Prices", "2. Order Delivery", "3. Help", "4. Exit">>
           /\ users' = users
           /\ orders' = orders
           /\ last'.sends = 0 ]_vars

\* a call with only whitespace, made while the storage is failing and the
\* customer already has a record, got the menu
C12_Witness ==
    /\ UssdDone(last)
    /\ last.text = U_blank
    /\ last.fault = "query"
    /\ HasUser(users, last.phone_number)
    /\ last.screen.kind = "CON"
    /\ Len(last.screen.options) = 4

\* C13: with the storage working, a two-segment path "1*s" leaves one record
\* for the caller whose city code and location are the upper-cased trimmed
\* s and whose token decodes to NeedArea; one send is attempted and the
\* screen is the END acknowledgement.
C13_CityCaptured ==
    [][ (UssdDone(last') /\ last'.fault = "none" /\ IsCityPath(last'.text))
        => /\ CityStored(users', last'.phone_number, last'.text)
           /\ Len(users') = Len(users) + (IF HasUser(users, last'.phone_number) THEN 0 ELSE 1)
           /\ last'.sends = 1
           /\ last'.reply.kind = "welcome_location_format"
           /\ last'.screen = AckScreen ]_vars

\* "1* nai" from a caller who had searched by SMS: city code and location
\* are now NAI and the results token is replaced
C13_Witness ==
    /\ UssdDone(last)
    /\ last.text = U_1_nai
    /\ last.fault = "none"
    /\ last.phone_number = PhoneA
    /\ orders # <<>>
    /\ LocationOf(users, PhoneA) = Str(<<"N", "A", "I">>)
    /\ TokenOf(users, PhoneA) = Str(SmsStepNeedArea)

\* C14: a USSD call whose path is not a two-segment path starting with "1"
\* leaves the customer records and the order rows as they were and sends
\* nothing.
C14_OtherPathsNoEffect ==
    [][ (UssdDone(last') /\ ~IsCityPath(last'.text))
        => /\ users' = users
           /\ orders' = orders
           /\ last'.sends = 0 ]_vars

\* option 2 chosen by a caller without a record, while another caller has one
C14_Witness ==
    /\ UssdDone(last)
    /\ last.text = U_2
    /\ last.fault = "none"
    /\ ~HasUser(users, last.phone_number)
    /\ users # <<>>
    /\ last.screen.kind = "END"

\* the request touched the storage and the storage failed under it
StorageFailed(l) ==
    \/ l.fault = "query" /\ (IsCityPath(l.text) \/ PathOf(l.text) = <<U_2>>)
    \/ l.fault = "commit1" /\ IsCityPath(l.text)

\* C15: every USSD call returns a CON or END screen and raises nothing,
\* whatever the storage and the notifier do; when the storage fails the
\* screen is the END error screen.
C15_AlwaysAScreen ==
    UssdDone(last)
    => /\ last.status = "success"
       /\ last.screen.kind \in {"CON", "END"}
       /\ StorageFailed(last) => last.screen = ErrorScreen

\* a city code whose commit failed: the error screen, and nothing sent
C15_Witness ==
    /\ UssdDone(last)
    /\ last.text = U_1_nai
    /\ last.fault = "commit1"
    /\ last.screen = ErrorScreen
    /\ last.sends = 0

\* C16: when the send of the city-code step fails, the screen is the END
\* acknowledgement of the successful case and the committed record (city
\* code, location, NeedArea) stays.
C16_SendFailureHarmless ==
    [][ (UssdDone(last') /\ last'.fault = "none" /\ IsCityPath(last'.text) /\ ~last'.sendOk)
        => /\ last'.screen = UssdRun(users, orders, last'.phone_number, last'.text).screen
           /\ last'.screen = AckScreen
           /\ last'.status = "success"
           /\ CityStored(users', last'.phone_number, last'.text) ]_vars

\* a first call "1* nai" whose send failed: the record is there
C16_Witness ==
    /\ UssdDone(last)
    /\ last.text = U_1_nai
    /\ last.fault = "none"
    /\ ~last.sendOk
    /\ last.sends = 1
    /\ Len(users) = 1
    /\ users[1].city_code = Str(<<"N", "A", "I">>)
    /\ last.screen.kind = "END"

\* the ids of the order rows of a phone number's customer
OrderIdsOf(us, os, p) ==
    IF HasUser(us, p) THEN {os[i].id : i \in {j \in 1..Len(os) : os[j].user_id = UserRow(us, p).id}}
    ELSE {}

\* the n newest of a set of order ids: ids are handed out in creation order
Newest(ids, n) == {i \in ids : Cardinality({j \in ids : j > i}) < n}

\* C17: option 2 answers a caller without a record or without orders with
\* the END "no orders yet" screen; otherwise the END screen lists at most 5
\* orders, and they are the caller's most recent ones.
C17_ListsMostRecent ==
    [][ (UssdDone(last') /\ last'.fault = "none" /\ PathOf(last'.text) = <<U_2>>)
        => LET mine == OrderIdsOf(users, orders, last'.phone_number)
               listed == last'.screen.listed
           IN  /\ last'.screen.kind = "END"
               /\ mine = {} => /\ listed = <<>>
                               /\ last'.screen.text \in {"You have no orders yet.",
                                      "You have no orders yet. Use option 1 to compare prices first."}
               /\ mine # {} => /\ last'.screen.text = "Your recent orders:"
                               /\ Len(listed) <= 5
                               /\ {listed[i].id : i \in 1..Len(listed)} = Newest(mine, 5) ]_vars

\* the database after the last commit of a run that started from db0
FinalDb(db0, run) == IF run.commits = <<>> THEN db0 ELSE run.commits[Len(run.commits)]

C19_NoPartialState ==
    [][ (last'.op = "sms" /\ last'.fault # "none" /\ last'.status = "error")
        => users' = users /\ orders' = orders ]_vars

\* the number of times the token of a phone number changes along the
\* commits of a run
TokenChanges(us0, commits, p) ==
    LET toks == <<TokenOf(us0, p)>> \o [i \in 1..Len(commits) |-> TokenOf(commits[i].users, p)]
    IN  Cardinality({i \in 1..Len(commits) : toks[i + 1] # toks[i]})

\* a store that holds nothing but one customer with the given token
OnlyToken(p, tok) == <<[NewUser(1, p, NULL, NULL) EXCEPT !.current_session_data = tok]>>

\* C20: within one request the token is read once, it alone (with the
\* request's input) decides the branch, and it is written at most once: an
\* SMS request decodes the stored token, its reply and the token it leaves
\* are those of a customer who has nothing but that token, and along the
\* commits of an SMS or USSD request the token changes at most once.
C20_ReadOnceWriteOnce ==
    [][ /\ (SmsDone(last') /\ HasUser(users, last'.phone_number))
           => \A p \in {last'.phone_number} :
              \A run \in {SmsRun(users, orders, p, last'.text)} :
              \A alone \in {SmsRun(OnlyToken(p, TokenOf(users, p)), <<>>, p, last'.text)} :
                  /\ last'.token = TokenOf(users, p)
                  /\ last'.step = ParseSmsStep(TokenOf(users, p))
                  /\ run.reply.kind = alone.reply.kind
                  /\ TokenOf(users', p) = TokenOf(FinalDb(Db(OnlyToken(p, TokenOf(users, p)), <<>>), alone).users, p)
                  /\ TokenChanges(users, run.commits, p) <= 1
        /\ (SmsDone(last') /\ ~HasUser(users, last'.phone_number))
           => /\ last'.token = NULL
              /\ TokenChanges(users, SmsRun(users, orders, last'.phone_number, last'.text).commits,
                              last'.phone_number) <= 1
        /\ UssdDone(last')
           => TokenChanges(users, UssdRun(users, orders, last'.phone_number, last'.text).commits,
                           last'.phone_number) <= 1 ]_vars

\* an ORDER that stored an order and reset the step: two commits, one of
\* which wrote the token
C20_Witness ==
    /\ SmsDone(last)
    /\ last.reply.kind = "order_confirmed"
    /\ last.step = HaveResults
    /\ TokenHaveResults(last.token)
    /\ TokenNeedProducts(TokenOf(users, last.phone_number))
    /\ users[1].phone_number # last.phone_number

\* C23: an order row is never modified or deleted: every request leaves
\* each existing order in its place with its owner, items, total and status
\* PENDING, and the orders table only grows.
C23_OrdersImmutable ==
    [][ /\ Len(orders') >= Len(orders)
        /\ \A i \in 1..Len(orders) : orders'[i] = orders[i] /\ orders'[i].status = "PENDING" ]_vars

\* a CANCEL answered while the customer has two orders, both still there
C23_Witness ==
    /\ SmsDone(last)
    /\ last.reply.kind = "order_cancelled"
    /\ Len(orders) = 2
    /\ \A i \in 1..2 : orders[i].status = "PENDING" /\ orders[i].id = i

\* the fixture entries whose name equals a product name in any letter case,
\* once the product name is trimmed
FixtureOf(product_name) ==
    {i \in 1..Len(MOCK_PRICES) : Upper(MOCK_PRICES[i].key) = Upper(Strip(product_name))}

\* C24: the price source returns a non-empty offer list for every product
\* name: the fixture list of a known name, matched in any letter case after
\* trimming, and the fixed fallback list for every other name.
C24_PricesNeverEmpty ==
    last.op = "get_prices"
    => /\ last.prices # <<>>
       /\ \A i \in FixtureOf(last.product_name) : last.prices = MOCK_PRICES[i].prices
       /\ FixtureOf(last.product_name) = {} => last.prices = DefaultPrices
       /\ DefaultPrices # <<>>

\* " COOKING OIL" with padding around it got the cooking oil offers
C24_Witness ==
    /\ last.op = "get_prices"
    /\ last.product_name = <<" ">> \o Upper(K_cooking_oil) \o <<"\n", " ">>
    /\ Len(last.prices) = 4
    /\ last.prices # DefaultPrices

\* the calls of one transport among the attempts of a send
CallsOf(attempts, transport) == {i \in 1..Len(attempts) : attempts[i].transport = transport}

\* C25: a send ends by returning or raising after at most three transport
\* calls, one direct HTTP call and at most two SDK calls, and it raises only
\* after a direct HTTP call and an SDK call have both failed.
C25_BoundedAttempts ==
    last.op = "send_sms"
    => /\ last.sent.result \in {"returned", "raised"}
       /\ Len(last.sent.attempts) \in 1..3
       /\ Cardinality(CallsOf(last.sent.attempts, "direct")) <= 1
       /\ Cardinality(CallsOf(last.sent.attempts, "sdk")) <= 2
       /\ last.sent.result = "raised"
          => /\ \A i \in 1..Len(last.sent.attempts) : last.sent.attempts[i].outcome # "ok"
             /\ CallsOf(last.sent.attempts, "direct") # {}
             /\ CallsOf(last.sent.attempts, "sdk") # {}
       /\ last.sent.result = "returned"
          => \A i \in 1..Len(last.sent.attempts) :
                 (last.sent.attempts[i].outcome = "ok") = (i = Len(last.sent.attempts))

\* a production send that raised after two SDK calls and the direct call
C25_Witness ==
    /\ last.op = "send_sms"
    /\ last.api_username = "production"
    /\ last.sent.result = "raised"
    /\ Len(last.sent.attempts) = 3
    /\ last.sent.attempts[3].transport = "direct"

\* C26: a number starting with "+" is sent to as it is; any other number is
\* rewritten to start with "+254": a leading "0" is replaced, a leading "254"
\* gets the "+", anything else gets "+254" in front; normalizing the result
\* again changes nothing.
C26_Normalization ==
    last.op = "send_sms"
    => \A phone \in {last.phone} : \A to \in {last.sent.phone} :
        /\ StartsWith(phone, <<"+">>) => to = phone
        /\ ~StartsWith(phone, <<"+">>)
           => /\ StartsWith(to, <<"+", "2", "5", "4">>)
              /\ StartsWith(phone, <<"0">>) => to = <<"+", "2", "5", "4">> \o Tail(phone)
              /\ StartsWith(phone, <<"2", "5", "4">>) => to = <<"+">> \o phone
              /\ ~StartsWith(phone, <<"0">>) /\ ~StartsWith(phone, <<"2", "5", "4">>)
                 => to = <<"+", "2", "5", "4">> \o phone
        /\ Normalize(to) = to

\* "0712" was sent to as "+254712"
C26_Witness ==
    /\ last.op = "send_sms"
    /\ last.phone = <<"0", "7", "1", "2">>
    /\ last.sent.phone = <<"+", "2", "5", "4", "7", "1", "2">>

\* C27: an ORDER received while the stored token is not a price snapshot
\* (no token, need_area, need_search_type or need_products) creates no
\* order, leaves the token as it was and is answered that there is no recent
\* price comparison.
C27_OrderWithoutSnapshot ==
    [][ (SmsDone(last') /\ IsCmd(last'.text, CmdOrder)
         /\ ~TokenHaveResults(TokenOf(users, last'.phone_number)))
        => /\ orders' = orders
           /\ TokenOf(users', last'.phone_number) = TokenOf(users, last'.phone_number)
           /\ last'.reply.kind = "no_recent_comparison" ]_vars

\* " Order\n" from a customer without any token was refused, and the
\* customer's record still has no token
C27_Witness ==
    /\ SmsDone(last)
    /\ last.text = M_order_sp
    /\ last.step = NeedArea
    /\ last.reply.kind = "no_recent_comparison"
    /\ HasUser(users, last.phone_number)
    /\ TokenOf(users, last.phone_number).isNull
    /\ orders = <<>>

\* C28: in step need_search_type a message that is "1" or "2" after trimming
\* moves the customer to need_products and is answered with the product-list
\* prompt, whichever of the two it is; any other message that is not a
\* command leaves the token as it was and is answered with the prompt for 1
\* or 2.
C28_SearchTypeChoice ==
    [][ (SmsDone(last') /\ ~IsAnyCmd(last'.text)
         /\ TokenNeedSearchType(TokenOf(users, last'.phone_number)))
        => /\ orders' = orders
           /\ IF Strip(last'.text) = <<"1">> \/ Strip(last'.text) = <<"2">>
              THEN /\ TokenNeedProducts(TokenOf(users', last'.phone_number))
                   /\ last'.reply.kind = "list_products"
              ELSE /\ users' = users
                   /\ last'.reply.kind = "reply_1_or_2" ]_vars

\* " 2" was sent in step need_search_type and the customer is now asked for
\* a product list
C28_Witness ==
    /\ SmsDone(last)
    /\ last.text = M_two
    /\ last.step = NeedSearchType
    /\ last.reply.kind = "list_products"
    /\ TokenNeedProducts(TokenOf(users, last.phone_number))

\* a message without any product name: nothing is left once it is split at
\* commas, semicolons and line breaks and the pieces are trimmed
NoProductNames(text) ==
    \A i \in 1..Len(text) : text[i] \in {" ", "\t", "\n", "\r", ",", ";"}

\* C29: in need_products or with a stored snapshot, a message that is not a
\* command and holds no product name leaves the customers and orders tables
\* as they were and is answered with the prompt for a product list; when the
\* token kept is a snapshot, an ORDER of the same customer that follows is
\* confirmed and adds one order.
C29_EmptyListReprompts ==
    [][ /\ (SmsDone(last') /\ ~IsAnyCmd(last'.text) /\ NoProductNames(last'.text)
            /\ (\/ TokenNeedProducts(TokenOf(users, last'.phone_number))
                \/ TokenHaveResults(TokenOf(users, last'.phone_number))))
           => /\ users' = users
              /\ orders' = orders
              /\ last'.reply.kind = "list_products_again"
        /\ (SmsDone(last) /\ last.reply.kind = "list_products_again"
            /\ TokenHaveResults(TokenOf(users, last.phone_number))
            /\ SmsDone(last') /\ last'.phone_number = last.phone_number
            /\ IsCmd(last'.text, CmdOrder))
           => /\ last'.reply.kind = "order_confirmed"
              /\ Len(orders') = Len(orders) + 1
              /\ orders'[Len(orders')].user_id = UserRow(users, last.phone_number).id ]_vars

\* separators only were sent while a snapshot was stored, and the snapshot
\* is still there
C29_Witness ==
    /\ SmsDone(last)
    /\ last.text = M_seps
    /\ last.reply.kind = "list_products_again"
    /\ TokenHaveResults(last.token)
    /\ TokenHaveResults(TokenOf(users, last.phone_number))

\* a path the menu has no entry for: a first segment other than "1" to "4",
\* three or more segments, or two segments of which the first is not "1"
OutsideTable(path) ==
    /\ path # <<>>
    /\ \/ path[1] \notin {<<"1">>, <<"2">>, <<"3">>, <<"4">>}
       \/ Len(path) >= 3
       \/ Len(path) = 2 /\ path[1] # <<"1">>

\* C30: the screen of a USSD call is a CON screen exactly when the trimmed
\* path is empty or is "1", whatever the storage and the notifier do; a
\* path the menu has no entry for ends with the "Invalid option" screen,
\* writes nothing and sends nothing.
C30_ScreenKindByPath ==
    [][ UssdDone(last')
        => /\ last'.screen.kind \in {"CON", "END"}
           /\ (last'.screen.kind = "CON")
                 = (Strip(last'.text) = <<>> \/ Strip(last'.text) = <<"1">>)
           /\ OutsideTable(PathOf(last'.text))
              => /\ last'.screen = Screen("END", "Invalid option. Please try again.")
                 /\ users' = users
                 /\ orders' = orders
                 /\ last'.sends = 0 ]_vars

\* "1*NAI*x", three segments under option 1, was refused while the storage
\* was failing
C30_Witness ==
    /\ UssdDone(last)
    /\ last.text = U_1_nai_x
    /\ last.fault = "query"
    /\ last.screen = Screen("END", "Invalid option. Please try again.")

\* C21: nothing holds a request back because of another request of the
\* same phone number: a commit of a handler always goes through, and when
\* it writes the token, the row holds the token this handler computed from
\* the row it read, whatever another request has written in between, which
\* is then lost.
C21_LastWriterWins ==
    [][ \A w \in Workers :
          (pending[w].pc = "loaded" /\ pending'[w] # pending[w])
          => /\ ~pending'[w].failed
             /\ pending[w].effects[1].token.set
                => users'[pending[w].id].current_session_data = pending[w].effects[1].token.value
             /\ Len(orders') = Len(orders) + Len(pending[w].effects[1].orders) ]_vars

\* two requests of one phone number read the same token and both wrote:
\* the search results worker 1 stored were replaced, unread, by the token
\* of worker 2, which is the one the row holds
C21_Witness ==
    /\ \A w \in Workers : /\ pending[w].pc = "done"
                           /\ pending[w].phone_number = PhoneA
                           /\ pending[w].written
    /\ pending[1].seen = pending[2].seen
    /\ TokenHaveResults(pending[1].wrote)
    /\ pending[2].wrote # pending[1].wrote
    /\ pending[2].unseen
    /\ pending[2].lost = pending[1].wrote
    /\ TokenOf(users, PhoneA) = pending[2].wrote

\* C22: there is at most one customer record per phone number, also when
\* two first requests of an unseen number are served side by side; a
\* record is never removed and keeps its id and number; a finished SMS
\* request or city capture leaves a record for its number.
C22_OneRecordPerPhone ==
    [][ /\ \A i, j \in 1..Len(users') :
              users'[i].phone_number = users'[j].phone_number => i = j
        /\ Len(users') >= Len(users)
        /\ \A i \in 1..Len(users) : /\ users'[i].id = users[i].id
                                    /\ users'[i].phone_number = users[i].phone_number
        /\ \A w \in Workers : pending'[w].pc = "done"
              => HasUser(users', pending'[w].phone_number) ]_vars

\* two first requests of one number both found no record; one added it and
\* the other failed on the insert, so the number has one record
C22_Witness ==
    /\ \A w \in Workers : /\ pending[w].pc = "done"
                           /\ pending[w].newrow.phone_number = PhoneA
    /\ ~pending[1].failed
    /\ pending[2].failed
    /\ Cardinality({i \in 1..Len(users) : users[i].phone_number = PhoneA}) = 1

\* the first offer with the minimum price, in source order
FirstMin(prices) ==
    prices[CHOOSE i \in 1..Len(prices) :
              /\ prices[i].price = MinPrice(prices)
              /\ \A j \in 1..(i - 1) : prices[j].price # MinPrice(prices)]

\* C31: the cheapest offer of a product is the first offer with the minimum
\* price in source order, in the results reply and in the order alike: each
\* line of a results reply shows that offer of the product as stored in the
\* snapshot, and the order built from a snapshot has, for every product of
\* the snapshot, an item with the shop and price of that offer.
C31_OrderTakesShownCheapest ==
    [][ /\ (SmsDone(last') /\ last'.reply.kind = "results")
           => \A snapshot \in {TokenOf(users', last'.phone_number).obj} :
                  /\ Len(last'.reply.lines) = Len(snapshot)
                  /\ \A i \in 1..Len(snapshot) :
                        /\ last'.reply.lines[i].cheapest = FirstMin(snapshot[i].prices).price
                        /\ last'.reply.lines[i].store_loc
                               = FirstMin(snapshot[i].prices).store_location
        /\ (SmsDone(last') /\ last'.reply.kind = "order_confirmed")
           => \A snapshot \in {TokenOf(users, last'.phone_number).obj} :
              \A order \in {orders'[Len(orders')]} :
                  \A i \in 1..Len(snapshot) :
                      \E j \in 1..Len(order.items) :
                          /\ order.items[j].product = snapshot[i].key
                          /\ order.items[j].shop = FirstMin(snapshot[i].prices).shop
                          /\ order.items[j].price = FirstMin(snapshot[i].prices).price ]_vars

\* C32: a failed construction of the notification service is not final:
\* a call made while the stand-in service is installed runs ATService()
\* again, and gets the real service when the construction succeeds.
C32_RetryAfterFailure ==
    [][ (last'.op = "proxy_send_sms" /\ at_service_instance = "MockATService")
        => /\ last'.constructs = 1
           /\ last'.init_ok => at_service_instance' = "ATService" ]_vars

\* the conversation state the SMS engine decodes for a phone number
StepOf(us, p) == ParseSmsStep(TokenOf(us, p))

\* C33: no SMS message sets the conversation state to NeedArea: an SMS
\* handled for a customer whose state is not NeedArea leaves the state in
\* NeedSearchType, NeedProducts or HaveResults, and every step that brings a
\* customer's state back to NeedArea is a USSD city capture (level 2,
\* branch 1) by that customer.
C33_SmsNeverSetsNeedArea ==
    [][ /\ (last'.op = "sms" /\ StepOf(users, last'.phone_number) # NeedArea)
           => StepOf(users', last'.phone_number) \in {NeedSearchType, NeedProducts, HaveResults}
        /\ \A p \in Phones :
              (StepOf(users, p) # NeedArea /\ StepOf(users', p) = NeedArea)
              => /\ last'.op = "ussd"
                 /\ last'.phone_number = p
                 /\ IsCityPath(last'.text) ]_vars

\* a customer who gave the city over USSD and the location over SMS answers
\* the search-type prompt: the state moves on to NeedProducts
C33_Witness ==
    /\ SmsDone(last)
    /\ last.step = NeedSearchType
    /\ last.text = M_one
    /\ StepOf(users, PhoneA) = NeedProducts
    /\ UserRow(users, PhoneA).city_code = Str(<<"N", "A", "I">>)
    /\ LocationOf(users, PhoneA) = Str(M_loc)

\* a USSD city capture that went through
CityCaptureDone(l) == l.op = "ussd" /\ l.status = "success" /\ l.screen = AckScreen

\* C34: a USSD city capture for a customer whose state is HaveResults
\* discards the snapshot and overwrites the location: the state is NeedArea
\* afterwards, the location is the upper-cased city code alone, no order is
\* created, and an SMS ORDER that comes next creates no order and is
\* answered that there is no recent price comparison.
C34_CityCaptureDiscardsSnapshot ==
    [][ /\ (/\ CityCaptureDone(last')
            /\ TokenHaveResults(TokenOf(users, last'.phone_number)))
           => /\ StepOf(users', last'.phone_number) = NeedArea
              /\ ~TokenOf(users', last'.phone_number).hasObj
              /\ LocationOf(users', last'.phone_number)
                    = Str(Upper(Strip(PathOf(last'.text)[2])))
              /\ orders' = orders
        /\ (/\ CityCaptureDone(last)
            /\ TokenHaveResults(last.token)
            /\ SmsDone(last')
            /\ last'.phone_number = last.phone_number
            /\ IsCmd(last'.text, CmdOrder))
           => /\ orders' = orders
              /\ last'.reply.kind = "no_recent_comparison" ]_vars

\* "1* nai" dialled by a customer who was looking at results and had not
\* ordered: the snapshot is gone and the location is NAI
C34_Witness ==
    /\ CityCaptureDone(last)
    /\ last.phone_number = PhoneA
    /\ TokenHaveResults(last.token)
    /\ TokenOf(users, PhoneA) = Str(SmsStepNeedArea)
    /\ LocationOf(users, PhoneA) = Str(<<"N", "A", "I">>)
    /\ orders = <<>>

\* C36: a stored results token always holds a snapshot with at least one
\* product in which every product has at least one offer, and so does the
\* snapshot the ORDER branch decodes from it: order construction finds a
\* cheapest offer for each product.
C36_SnapshotHasOffers ==
    \A i \in 1..Len(users) :
        \A tok \in {users[i].current_session_data} :
            (Truthy(tok) /\ StartsWith(tok.text, PricesPrefix))
            => /\ tok.hasObj
               /\ tok.obj # <<>>
               /\ \A k \in 1..Len(tok.obj) : tok.obj[k].prices # <<>>
               /\ \A loaded \in {LoadLastPrices(tok)} :
                     /\ loaded.ok
                     /\ loaded.value # <<>>
                     /\ \A k \in 1..Len(loaded.value) : loaded.value[k].prices # <<>>

\* a customer who came in over USSD, has ordered once and searched again:
\* the stored snapshot has two products with offers
C36_Witness ==
    /\ HasUser(users, PhoneA)
    /\ TokenHaveResults(TokenOf(users, PhoneA))
    /\ Len(TokenOf(users, PhoneA).obj) = 2
    /\ \A k \in 1..2 : Len(TokenOf(users, PhoneA).obj[k].prices) >= 3
    /\ UserRow(users, PhoneA).city_code = Str(<<"N", "A", "I">>)
    /\ orders # <<>>

\* the number of order rows of a phone number
OrderCount(us, os, p) ==
    IF HasUser(us, p)
    THEN Cardinality({i \in 1..Len(os) : os[i].user_id = UserRow(us, p).id})
    ELSE 0

\* C35: with requests handled one at a time, a snapshot is consumed by at
\* most one order: an ORDER that directly follows a confirmed ORDER of the
\* same customer creates no order, and after every request the number of a
\* customer's orders is at most the number of results replies sent to them.
C35_OneOrderPerSnapshot ==
    [][ /\ (SmsDone(last') /\ IsCmd(last'.text, CmdOrder) /\ last'.after_order)
           => orders' = orders
        /\ \A p \in Phones : OrderCount(users', orders', p) <= received'[p] ]_vars

====
